---- MODULE Spec2Model ----
(***************************************************************************)
(* Model of the DCF valuation engine of aexivscanner (src/dcf_model.py).   *)
(* Later sections model the fair-value configuration store                 *)
(* (src/config_manager.py), the ticker list resolution                     *)
(* (src/aex_tickers.py), the scanner's fetch (src/aex_scanner.py) and the  *)
(* DCF integration (src/dcf_integration.py), each with a specification of  *)
(* its own over the same variables.                                        *)
(*                                                                         *)
(* Numbers are exact rationals [n, d] in lowest terms with d > 0.  Python  *)
(* None is the value [n |-> 0, d |-> 0]; a key that is absent from a dict  *)
(* is the value [n |-> 1, d |-> 0].  Money amounts are small so that every *)
(* intermediate value fits the model checker's integers.                   *)
(***************************************************************************)
EXTENDS Integers, Sequences, FiniteSets, TLC

\* ------------------------------------------------------------------------
\* Exact arithmetic
\* ------------------------------------------------------------------------
None == [n |-> 0, d |-> 0]
Missing == [n |-> 1, d |-> 0]

IsNum(x) == x.d > 0

Abs(i) == IF i < 0 THEN -i ELSE i

RECURSIVE Gcd(_, _)
Gcd(a, b) == IF b = 0 THEN a ELSE Gcd(b, a % b)

\* the rational n/d (d # 0) in lowest terms
R(n, d) ==
    LET g == Gcd(Abs(n), Abs(d))
        s == IF d < 0 THEN -1 ELSE 1
    IN  [n |-> s * (n \div g), d |-> s * (d \div g)]

Num(i) == [n |-> i, d |-> 1]

RAdd(a, b) ==
    LET g == Gcd(a.d, b.d)
    IN  R(a.n * (b.d \div g) + b.n * (a.d \div g), (a.d \div g) * b.d)

RNeg(a) == [n |-> -a.n, d |-> a.d]

RSub(a, b) == RAdd(a, RNeg(b))

RMul(a, b) ==
    LET g1 == Gcd(Abs(a.n), b.d)
        g2 == Gcd(Abs(b.n), a.d)
    IN  IF a.n = 0 \/ b.n = 0 THEN Num(0)
        ELSE [n |-> (a.n \div g1) * (b.n \div g2), d |-> (a.d \div g2) * (b.d \div g1)]

\* a / b for b # 0
RDiv(a, b) ==
    RMul(a, IF b.n < 0 THEN [n |-> -b.d, d |-> -b.n] ELSE [n |-> b.d, d |-> b.n])

\* a < b, compared by integer parts and then by the reciprocals of the
\* fractional parts, so that no product is formed
RECURSIVE RLt(_, _)
RLt(a, b) ==
    LET qa == a.n \div a.d
        qb == b.n \div b.d
        ra == a.n % a.d
        rb == b.n % b.d
    IN  IF qa # qb THEN qa < qb
        ELSE IF rb = 0 THEN FALSE
        ELSE IF ra = 0 THEN TRUE
        ELSE RLt([n |-> b.d, d |-> rb], [n |-> a.d, d |-> ra])

RLe(a, b) == ~RLt(b, a)
RGt(a, b) == RLt(b, a)
RGe(a, b) == RLe(b, a)

RMin(a, b) == IF RLt(b, a) THEN b ELSE a
RMax(a, b) == IF RGt(b, a) THEN b ELSE a

\* a ** k for an integer k >= 0
RECURSIVE RPow(_, _)
RPow(a, k) == IF k = 0 THEN Num(1) ELSE RMul(a, RPow(a, k - 1))

RECURSIVE RSum(_)
RSum(s) == IF s = <<>> THEN Num(0) ELSE RAdd(Head(s), RSum(Tail(s)))

\* Python truthiness of an optional number: None and 0 are falsy
Truthy(x) == IsNum(x) /\ x.n # 0

\* dict.get(key) of a value that may be absent
Get(x) == IF x = Missing THEN None ELSE x

\* series.dropna()
DropNa(s) == SelectSeq(s, IsNum)

\* ------------------------------------------------------------------------
\* Text values (sector, industry): a Python str is a sequence of characters;
\* a text may also be None or absent from the dict
\* ------------------------------------------------------------------------
Str(chars) == [k |-> "str", s |-> chars]
NoneText == [k |-> "none", s |-> <<>>]
MissingText == [k |-> "missing", s |-> <<>>]

UpperChars == <<"A", "B", "C", "D", "E", "F", "G", "H", "I", "J", "K", "L", "M",
                "N", "O", "P", "Q", "R", "S", "T", "U", "V", "W", "X", "Y", "Z">>
LowerChars == <<"a", "b", "c", "d", "e", "f", "g", "h", "i", "j", "k", "l", "m",
                "n", "o", "p", "q", "r", "s", "t", "u", "v", "w", "x", "y", "z">>

\* str.lower()
LowerChar(c) ==
    IF \E i \in 1..26 : UpperChars[i] = c
    THEN LowerChars[CHOOSE i \in 1..26 : UpperChars[i] = c]
    ELSE c

ToLower(chars) == [i \in 1..Len(chars) |-> LowerChar(chars[i])]

\* keyword in text
Contains(kw, chars) ==
    \E i \in 0..(Len(chars) - Len(kw)) : SubSeq(chars, i + 1, i + Len(kw)) = kw

\* ------------------------------------------------------------------------
\* DCFModel.__init__: self.default_params
\* ------------------------------------------------------------------------
default_params_init ==
    [growth_years |-> 5,
     default_growth_rate |-> R(3, 100),
     default_terminal_growth |-> R(25, 1000),
     default_wacc |-> R(95, 1000),
     confidence_threshold |-> R(60, 100),
     max_retries |-> 3,
     retry_delay |-> 2,
     pe_ratio_banks |-> Num(10),
     output_dir |-> "outputs"]

\* ------------------------------------------------------------------------
\* fetch_with_retry: script[i] is what the i-th call of yf.Ticker(...).info
\* does: "ok" (a dict with shortName), "incomplete" (no usable dict),
\* "transient" (ConnectionError, Timeout or HTTPError), "error" (any other
\* exception).  Each wait is recorded by its lower bound (jitter factor 1).
\* ------------------------------------------------------------------------
IncompleteMsg == "Received incomplete data after maximum retries"
TransientMsg == "connection error"
UnexpectedMsg == "unexpected error"

Pow2(k) == RPow(Num(2), k).n

RECURSIVE fetch_loop(_, _, _, _, _)
fetch_loop(dp, script, tk, retries, waits) ==
    IF ~(retries <= dp.max_retries)
    THEN [kind |-> "none", msg |-> "", retries |-> retries, waits |-> waits]
    ELSE LET o == script[retries + 1]
         IN  IF o = "ok"
             THEN [kind |-> "stock", msg |-> "", retries |-> retries, waits |-> waits]
             ELSE IF o = "incomplete"
             THEN IF retries < dp.max_retries
                  THEN fetch_loop(dp, script, tk, retries + 1,
                                  Append(waits, dp.retry_delay))
                  ELSE [kind |-> "raise", msg |-> IncompleteMsg,
                        retries |-> retries, waits |-> waits]
             ELSE IF o = "transient"
             THEN IF retries < dp.max_retries
                  THEN fetch_loop(dp, script, tk, retries + 1,
                                  Append(waits, dp.retry_delay * Pow2(retries + 1)))
                  ELSE [kind |-> "raise", msg |-> TransientMsg,
                        retries |-> retries, waits |-> waits]
             ELSE [kind |-> "raise", msg |-> UnexpectedMsg,
                   retries |-> retries, waits |-> waits]

\* the loop left without raising once the retries are used up, so that
\* line 101 returns None
fetch_gives_up(r, max_retries) ==
    IF r.kind = "raise" /\ r.retries = max_retries THEN [r EXCEPT !.kind = "none"] ELSE r

fetch_with_retry_returning_none(dp, script, tk) ==
    fetch_gives_up(fetch_loop(dp, script, tk, 0, <<>>), dp.max_retries)

fetch_with_retry(dp, script, tk) == fetch_loop(dp, script, tk, 0, <<>>)

\* ------------------------------------------------------------------------
\* is_financial_stock
\* ------------------------------------------------------------------------
financial_keywords ==
    {<<"b", "a", "n", "k">>, <<"f", "i", "n", "a", "n", "c">>,
     <<"i", "n", "s", "u", "r", "a", "n", "c", "e">>,
     <<"i", "n", "v", "e", "s", "t">>, <<"c", "r", "e", "d", "i", "t">>}

known_financials == {"INGA.AS", "ABN.AS", "NN.AS", "AGN.AS", "ASRNL.AS"}

\* info.get(key, '') of a text
GetText(t) == IF t.k = "missing" THEN Str(<<>>) ELSE t

is_financial_stock(tk) ==
    LET sector == GetText(tk.info.sector)
        industry == GetText(tk.info.industry)
    IN  IF sector.k = "none" \/ industry.k = "none"
        THEN FALSE      \* None.lower() raises, caught: return False
        ELSE IF \E kw \in financial_keywords :
                    Contains(kw, ToLower(sector.s)) \/ Contains(kw, ToLower(industry.s))
        THEN TRUE
        ELSE tk.ticker \in known_financials

\* ------------------------------------------------------------------------
\* get_wacc: reads self.default_params (dp), never the per-call params
\* ------------------------------------------------------------------------
\* the estimate without its bounds
get_wacc_unbounded(dp, tk) ==
    LET is_financial == is_financial_stock(tk)
        beta == tk.info.beta
    IN  IF beta # Missing /\ IsNum(beta) /\ beta.n > 0
        THEN RAdd(R(8, 100), RMul(RSub(beta, Num(1)),
                                  IF is_financial THEN R(45, 1000) ELSE R(4, 100)))
        ELSE IF is_financial
        THEN RAdd(dp.default_wacc, R(1, 100))
        ELSE dp.default_wacc

get_wacc(dp, tk) ==
    LET is_financial == is_financial_stock(tk)
        beta == tk.info.beta
        base_rate == R(8, 100)
    IN  IF beta # Missing /\ IsNum(beta) /\ beta.n > 0
        THEN LET risk_premium == IF is_financial THEN R(45, 1000) ELSE R(4, 100)
                 wacc == RAdd(base_rate, RMul(RSub(beta, Num(1)), risk_premium))
             IN  RMin(RMax(wacc, R(7, 100)), R(16, 100))
        ELSE IF is_financial
        THEN RAdd(dp.default_wacc, R(1, 100))
        ELSE dp.default_wacc

\* ------------------------------------------------------------------------
\* get_financial_data.  A statement (ticker.cashflow, ticker.income_stmt,
\* ticker.balance_sheet) is [kind, rows]: kind "df" is a non-empty
\* DataFrame whose rows map a line item to its series (most recent first),
\* "empty" an empty DataFrame, "none" not a DataFrame, "raise" a property
\* whose read raises.
\* ------------------------------------------------------------------------
IncomeRows == <<"Net Income", "Net Income Common Stockholders">>
EquityRows == <<"Total Stockholder Equity", "Stockholders Equity", "Common Stock Equity">>

\* for row in names: if row in index and the series without NaN is not
\* empty: take its first value and break
RECURSIVE first_value(_, _)
first_value(rows, names) ==
    IF names = <<>> THEN None
    ELSE IF Head(names) \in DOMAIN rows /\ DropNa(rows[Head(names)]) # <<>>
    THEN DropNa(rows[Head(names)])[1]
    ELSE first_value(rows, Tail(names))

\* the clamp without its upper bound
Clamp_no_cap(x) == RMax(x, R(-5, 100))

Clamp(x) == RMin(RMax(x, R(-5, 100)), R(20, 100))

\* min(max((newest / oldest) ** (1 / years) - 1, -0.05), 0.20): the root is
\* taken exactly; the clamp is decided on the powers
CagrGrid == {R(k, 100) : k \in -5..20}

cagr_clamped(newest, oldest, years) ==
    LET ratio == RDiv(newest, oldest)
    IN  IF RGe(ratio, RPow(R(120, 100), years)) THEN R(20, 100)
        ELSE IF RLe(ratio, RPow(R(95, 100), years)) THEN R(-5, 100)
        ELSE CHOOSE g \in CagrGrid : RPow(RAdd(Num(1), g), years) = ratio

\* the CAGR loop over the income rows; growth is the revenue-based
\* estimate so far (or None)
RECURSIVE cagr_growth(_, _, _)
cagr_growth(rows, names, growth) ==
    IF names = <<>> THEN growth
    ELSE IF Head(names) \in DOMAIN rows
    THEN LET income_series == DropNa(rows[Head(names)])
             oldest == income_series[Len(income_series)]
             newest == income_series[1]
             years == Len(income_series) - 1
         IN  IF Len(income_series) >= 3 /\ oldest.n > 0 /\ newest.n > 0
             THEN LET cagr == cagr_clamped(newest, oldest, years)
                  IN  IF IsNum(growth)
                      THEN RDiv(RAdd(growth, cagr), Num(2))
                      ELSE cagr
             ELSE cagr_growth(rows, Tail(names), growth)
    ELSE cagr_growth(rows, Tail(names), growth)

get_financial_data(dp, tk) ==
    LET info == tk.info
        is_financial == is_financial_stock(tk)
        cashflow == tk.cashflow
        cf_ok == cashflow.kind = "df"
        \* lines 170-175
        fcf1 == IF cf_ok THEN first_value(cashflow.rows, <<"Free Cash Flow">>) ELSE None
        conf1 == IF IsNum(fcf1) THEN R(7, 10) ELSE Num(0)
        \* line 178: income_stmt is read (and the local bound) only here
        income_read == cf_ok /\ (is_financial \/ ~IsNum(fcf1) \/ fcf1.n < 0)
        income_stmt == tk.income_stmt
        income_bound == income_read /\ income_stmt.kind # "raise"
        earn1 == IF income_bound /\ income_stmt.kind = "df"
                 THEN first_value(income_stmt.rows, IncomeRows)
                 ELSE None
        conf2 == IF IsNum(earn1) THEN R(8, 10) ELSE conf1
        \* lines 193-200
        both_none == ~IsNum(fcf1) /\ ~IsNum(earn1)
        use_fcf == both_none /\ info.freeCashflow # Missing /\ info.freeCashflow # None
        use_net == both_none /\ info.netIncomeToCommon # Missing
                             /\ info.netIncomeToCommon # None
        fcf2 == IF use_fcf THEN info.freeCashflow ELSE fcf1
        earn2 == IF use_net THEN info.netIncomeToCommon ELSE earn1
        conf3 == IF use_fcf \/ use_net THEN R(6, 10) ELSE conf2
        balance_sheet == tk.balance_sheet
        \* lines 203-210
        book == IF balance_sheet.kind = "df"
                THEN first_value(balance_sheet.rows, EquityRows)
                ELSE None
        \* lines 213-214
        revenue == IF info.totalRevenue # Missing /\ info.totalRevenue # None
                   THEN info.totalRevenue ELSE None
        \* lines 217-218
        growth1 == IF info.revenueGrowth # Missing /\ info.revenueGrowth # None
                   THEN Clamp(info.revenueGrowth) ELSE None
        \* lines 221-242: an unbound income_stmt raises NameError, caught
        growth2 == IF income_bound /\ income_stmt.kind = "df"
                   THEN cagr_growth(income_stmt.rows, IncomeRows, growth1)
                   ELSE growth1
        \* lines 245-246
        growth3 == IF ~IsNum(growth2) THEN dp.default_growth_rate ELSE growth2
    IN  IF balance_sheet.kind = "raise"
        THEN \* outer except: the bundle as filled so far
             [free_cash_flow |-> fcf2, earnings |-> earn2, book_value |-> None,
              revenue |-> None, growth_rate |-> None,
              is_financial |-> is_financial, confidence |-> conf3]
        ELSE [free_cash_flow |-> fcf2, earnings |-> earn2, book_value |-> book,
              revenue |-> revenue, growth_rate |-> growth3,
              is_financial |-> is_financial, confidence |-> conf3]

\* ------------------------------------------------------------------------
\* Valuation methods.  Each body runs inside try/except Exception: any
\* exception it raises is logged and the method returns None.
\* ------------------------------------------------------------------------
\* financial_data['growth_rate'] or params['default_growth_rate']
growth_or_default(fd, params) ==
    IF Truthy(fd.growth_rate) THEN fd.growth_rate ELSE params.default_growth_rate

\* [base * (1 + growth_rate) ** year for year in range(1, growth_years + 1)]
project(base, growth_rate, growth_years) ==
    [year \in 1..growth_years |->
        RMul(base, RPow(RAdd(Num(1), growth_rate), year))]

\* [flow / (1 + wacc) ** year for year, flow in enumerate(flows, 1)]
present_values(flows, wacc) ==
    [year \in 1..Len(flows) |->
        RDiv(flows[year], RPow(RAdd(Num(1), wacc), year))]

\* lines 464-469: the net cash position read from ticker.info; "error" when
\* the subtraction raises TypeError (a key present with value None)
net_cash_of(info) ==
    IF info.totalCash # Missing /\ info.totalDebt # Missing
    THEN IF IsNum(info.totalCash) /\ IsNum(info.totalDebt)
         THEN [ok |-> TRUE, v |-> RSub(info.totalCash, info.totalDebt)]
         ELSE [ok |-> FALSE, v |-> None]
    ELSE [ok |-> TRUE, v |-> Num(0)]

\* the perpetuity denominator with its operands exchanged
terminal_value_of_flipped(last_flow, terminal_growth, wacc) ==
    RDiv(RMul(last_flow, RAdd(Num(1), terminal_growth)), RSub(terminal_growth, wacc))

\* line 450
terminal_value_of(last_flow, terminal_growth, wacc) ==
    RDiv(RMul(last_flow, RAdd(Num(1), terminal_growth)), RSub(wacc, terminal_growth))

\* lines 443-475, given the flows projected over the growth years
fcf_equity_value(projected_cash_flows, growth_years, terminal_growth, wacc, net_cash) ==
    RAdd(RAdd(RSum(present_values(projected_cash_flows, wacc)),
              RDiv(terminal_value_of(projected_cash_flows[Len(projected_cash_flows)],
                                     terminal_growth, wacc),
                   RPow(RAdd(Num(1), wacc), growth_years))),
         net_cash)

\* lines 432-475, given the values read at lines 428-440 and 464-469
fcf_value(fcf, growth_rate, shares_outstanding, wacc, terminal_growth, growth_years, net_cash) ==
    IF ~IsNum(fcf) \/ fcf.n <= 0 THEN None
    ELSE IF growth_years < 1 THEN None                  \* IndexError
    ELSE IF wacc = terminal_growth THEN None            \* ZeroDivisionError
    ELSE IF RAdd(Num(1), wacc).n = 0 THEN None          \* ZeroDivisionError
    ELSE IF ~net_cash.ok THEN None                      \* TypeError
    ELSE IF ~Truthy(shares_outstanding) THEN None       \* TypeError, ZeroDivisionError
    ELSE RDiv(fcf_equity_value(project(fcf, growth_rate, growth_years), growth_years,
                               terminal_growth, wacc, net_cash.v),
              shares_outstanding)

calculate_fcf_based_value(dp, tk, fd, params) ==
    fcf_value(fd.free_cash_flow, growth_or_default(fd, params),
              Get(tk.info.sharesOutstanding), get_wacc(dp, tk),
              params.default_terminal_growth, params.growth_years, net_cash_of(tk.info))

\* lines 510-529, given the earnings projected over the growth years
earnings_equity_value(projected_earnings, growth_years, terminal_pe, wacc) ==
    RAdd(RSum(present_values(projected_earnings, wacc)),
         RDiv(RMul(projected_earnings[Len(projected_earnings)], terminal_pe),
              RPow(RAdd(Num(1), wacc), growth_years)))

\* lines 497-534, given the values read at lines 493-507
earnings_value(earnings, growth_rate, shares_outstanding, wacc, terminal_pe, growth_years) ==
    IF ~IsNum(earnings) \/ earnings.n <= 0 THEN None
    ELSE IF growth_years < 1 THEN None                  \* IndexError
    ELSE IF RAdd(Num(1), wacc).n = 0 THEN None          \* ZeroDivisionError
    ELSE IF ~Truthy(shares_outstanding) THEN None       \* TypeError, ZeroDivisionError
    ELSE RDiv(earnings_equity_value(project(earnings, growth_rate, growth_years),
                                    growth_years, terminal_pe, wacc),
              shares_outstanding)

calculate_earnings_based_value(dp, tk, fd, params) ==
    earnings_value(fd.earnings, growth_or_default(fd, params),
                   Get(tk.info.sharesOutstanding), RAdd(get_wacc(dp, tk), R(1, 100)),
                   IF fd.is_financial THEN Num(10) ELSE Num(12), params.growth_years)

\* the tiers compared with >= in place of >
calculate_ptb_value_inclusive(tk, fd, params) ==
    LET book_value == fd.book_value
        shares_outstanding == Get(tk.info.sharesOutstanding)
        roe == tk.info.returnOnEquity
        ptb_multiple ==
            IF roe # Missing /\ roe # None
            THEN IF RGe(roe, R(20, 100)) THEN Num(2)
                 ELSE IF RGe(roe, R(15, 100)) THEN R(17, 10)
                 ELSE IF RGe(roe, R(10, 100)) THEN R(14, 10)
                 ELSE IF RGe(roe, R(5, 100)) THEN Num(1)
                 ELSE R(8, 10)
            ELSE Num(1)
    IN  IF ~IsNum(book_value) \/ book_value.n <= 0 THEN None
        ELSE IF ~Truthy(shares_outstanding) THEN None
        ELSE RMul(RDiv(book_value, shares_outstanding), ptb_multiple)

calculate_ptb_value(tk, fd, params) ==
    LET book_value == fd.book_value
        shares_outstanding == Get(tk.info.sharesOutstanding)
        roe == tk.info.returnOnEquity
        ptb_multiple ==
            IF roe # Missing /\ roe # None
            THEN IF RGt(roe, R(20, 100)) THEN Num(2)
                 ELSE IF RGt(roe, R(15, 100)) THEN R(17, 10)
                 ELSE IF RGt(roe, R(10, 100)) THEN R(14, 10)
                 ELSE IF RGt(roe, R(5, 100)) THEN Num(1)
                 ELSE R(8, 10)
            ELSE Num(1)
    IN  IF ~IsNum(book_value) \/ book_value.n <= 0 THEN None
        ELSE IF ~Truthy(shares_outstanding) THEN None       \* TypeError, ZeroDivisionError
        ELSE RMul(RDiv(book_value, shares_outstanding), ptb_multiple)

\* ------------------------------------------------------------------------
\* calculate_dcf
\* ------------------------------------------------------------------------
NoKey == "<absent>"

\* a per-call override dict: the keys it holds and their values;
\* None and {} are both the override with no keys
NoCustom == [keys |-> {}, vals |-> default_params_init]

\* lines 309-311: params = self.default_params.copy(); params.update(custom)
merge_params(dp, custom_params) ==
    [k \in DOMAIN dp |-> IF k \in custom_params.keys THEN custom_params.vals[k] ELSE dp[k]]

\* self.default_params after a call when params is the dict itself
default_params_aliased(dp, custom_params) == merge_params(dp, custom_params)

\* line 309: params is a copy, so self.default_params keeps its entries
default_params_after(dp, custom_params) == dp

FailedResult(ticker_symbol, company, error) ==
    [ticker |-> ticker_symbol, company |-> company, fair_value |-> None,
     current_price |-> Missing, discount_percent |-> Missing,
     calculation_method |-> "failed", error |-> error]

\* only the price is required
missing_required_price_only(current_price, shares_outstanding) ==
    ~Truthy(current_price)

\* line 331
missing_required(current_price, shares_outstanding) ==
    ~Truthy(current_price) \/ ~Truthy(shares_outstanding)

\* the cash-flow comparison inverted
select_method_inverted(fd) ==
    IF fd.is_financial \/ (~IsNum(fd.free_cash_flow) \/ fd.free_cash_flow.n > 0)
    THEN IF Truthy(fd.earnings) /\ fd.earnings.n > 0 THEN "Earnings-Based"
         ELSE IF Truthy(fd.book_value) /\ fd.book_value.n > 0 THEN "Price-to-Book"
         ELSE "DCF"
    ELSE "FCF-Based DCF"

\* book value tried before earnings
select_method_book_first(fd) ==
    IF fd.is_financial \/ (~IsNum(fd.free_cash_flow) \/ fd.free_cash_flow.n <= 0)
    THEN IF Truthy(fd.book_value) /\ fd.book_value.n > 0 THEN "Price-to-Book"
         ELSE IF Truthy(fd.earnings) /\ fd.earnings.n > 0 THEN "Earnings-Based"
         ELSE "DCF"
    ELSE "FCF-Based DCF"

\* lines 350-362: which primary method the selector calls
select_method(fd) ==
    IF fd.is_financial \/ (~IsNum(fd.free_cash_flow) \/ fd.free_cash_flow.n <= 0)
    THEN IF Truthy(fd.earnings) /\ fd.earnings.n > 0 THEN "Earnings-Based"
         ELSE IF Truthy(fd.book_value) /\ fd.book_value.n > 0 THEN "Price-to-Book"
         ELSE "DCF"
    ELSE "FCF-Based DCF"

run_method(method, dp, tk, fd, params) ==
    IF method = "Earnings-Based" THEN calculate_earnings_based_value(dp, tk, fd, params)
    ELSE IF method = "Price-to-Book" THEN calculate_ptb_value(tk, fd, params)
    ELSE IF method = "FCF-Based DCF" THEN calculate_fcf_based_value(dp, tk, fd, params)
    ELSE None

\* lines 365-371: the earnings-multiple fallback, given the primary value
industry_pe == 15

\* the fallback applied without looking at the primary value
pe_fallback_unconditional(info, fair_value) ==
    IF info.trailingEps # Missing /\ info.trailingEps # None /\ info.trailingEps.n > 0
    THEN [used |-> TRUE, fair_value |-> RMul(info.trailingEps, Num(industry_pe))]
    ELSE [used |-> FALSE, fair_value |-> fair_value]

pe_fallback(info, fair_value) ==
    IF ~IsNum(fair_value) /\ info.trailingEps # Missing /\ info.trailingEps # None
       /\ info.trailingEps.n > 0
    THEN [used |-> TRUE, fair_value |-> RMul(info.trailingEps, Num(industry_pe))]
    ELSE [used |-> FALSE, fair_value |-> fair_value]

\* lines 384-398
max_premium == 300
min_discount == -80

\* the cap without its lower branch
cap_fair_value_no_floor(fair_value, current_price) ==
    LET discount_percent == RMul(RSub(RDiv(fair_value, current_price), Num(1)), Num(100))
    IN  IF RGt(discount_percent, Num(max_premium))
        THEN [fair_value |-> RMul(current_price, RAdd(Num(1), R(max_premium, 100))),
              discount_percent |-> Num(max_premium)]
        ELSE [fair_value |-> fair_value, discount_percent |-> discount_percent]

cap_fair_value(fair_value, current_price) ==
    LET discount_percent == RMul(RSub(RDiv(fair_value, current_price), Num(1)), Num(100))
    IN  IF RGt(discount_percent, Num(max_premium))
        THEN [fair_value |-> RMul(current_price, RAdd(Num(1), R(max_premium, 100))),
              discount_percent |-> Num(max_premium)]
        ELSE IF RLt(discount_percent, Num(min_discount))
        THEN [fair_value |-> RMul(current_price, RAdd(Num(1), R(min_discount, 100))),
              discount_percent |-> Num(min_discount)]
        ELSE [fair_value |-> fair_value, discount_percent |-> discount_percent]

NoData ==
    [free_cash_flow |-> None, earnings |-> None, book_value |-> None, revenue |-> None,
     growth_rate |-> None, is_financial |-> FALSE, confidence |-> Num(0)]

\* the locals of a call that ended before the selector ran
EarlyFrame(kind, result, msg, fetch, params) ==
    [kind |-> kind, result |-> result, msg |-> msg, fetch |-> fetch, params |-> params,
     fd |-> NoData, selected |-> "none", primary_value |-> None,
     fallback_used |-> FALSE, raw_fair_value |-> None]

\* lines 373-407: the record returned once the fallback has run
result_of(ticker_symbol, company_name, current_price, calculation_method, fair_value, capped) ==
    IF ~IsNum(fair_value)
    THEN FailedResult(ticker_symbol, company_name, "Insufficient data for valuation")
    ELSE [ticker |-> ticker_symbol, company |-> company_name,
          fair_value |-> capped.fair_value,
          current_price |-> current_price,
          discount_percent |-> capped.discount_percent,
          calculation_method |-> calculation_method,
          error |-> NoKey]

\* the label of the selected method kept when the fallback produced the value
method_label_of_selected(selected, fallback_used) == selected

\* lines 346-371: the local calculation_method: the placeholder "DCF" of line
\* 346, overwritten by the branch taken (354, 358, 362) and by the fallback (371)
method_label(selected, fallback_used) ==
    IF fallback_used THEN "P/E Multiple" ELSE selected

\* lines 373-407, given fb, what the fallback of lines 364-371 left
after_fallback(ticker_symbol, info, fetch, params, fd, selected, primary_value, fb) ==
    [kind |-> "return",
     result |-> result_of(ticker_symbol, info.shortName, Get(info.currentPrice),
                          method_label(selected, fb.used), fb.fair_value,
                          cap_fair_value(fb.fair_value, Get(info.currentPrice))),
     msg |-> "", fetch |-> fetch, params |-> params,
     fd |-> fd, selected |-> selected, primary_value |-> primary_value,
     fallback_used |-> fb.used, raw_fair_value |-> fb.fair_value]

\* lines 364-407, given the value of the primary method
after_method(ticker_symbol, info, fetch, params, fd, selected, primary_value) ==
    after_fallback(ticker_symbol, info, fetch, params, fd, selected, primary_value,
                   pe_fallback(info, primary_value))

\* lines 349-407, given the bundle of get_financial_data
after_data(dp, ticker_symbol, tk, fetch, params, fd) ==
    after_method(ticker_symbol, tk.info, fetch, params, fd, select_method(fd),
                 run_method(select_method(fd), dp, tk, fd, params))

\* lines 316-407, given what fetch_with_retry did
after_fetch(dp, ticker_symbol, tk, fetch, params) ==
    IF fetch.kind = "raise"
    THEN EarlyFrame("raise", FailedResult(ticker_symbol, NoKey, NoKey),
                    fetch.msg, fetch, params)
    ELSE IF fetch.kind = "none"
    THEN EarlyFrame("return",
                    FailedResult(ticker_symbol, NoKey, "Failed to fetch stock data"),
                    "", fetch, params)
    ELSE IF missing_required(Get(tk.info.currentPrice), Get(tk.info.sharesOutstanding))
    THEN EarlyFrame("return",
                    FailedResult(ticker_symbol, tk.info.shortName,
                                 "Missing price or shares outstanding data"),
                    "", fetch, params)
    ELSE after_data(dp, ticker_symbol, tk, fetch, params, get_financial_data(dp, tk))

\* the body of the try block, lines 306-407; kind "raise" is an exception
\* leaving the block, kind "return" a returned result
calculate_dcf_try(dp, ticker_symbol, custom_params, script, tk) ==
    after_fetch(dp, ticker_symbol, tk, fetch_with_retry(dp, script, tk),
                merge_params(dp, custom_params))

\* the try block without its except clause
calculate_dcf_no_except(dp, ticker_symbol, custom_params, script, tk) ==
    calculate_dcf_try(dp, ticker_symbol, custom_params, script, tk)

\* lines 409-416: except Exception: the failed record carrying str(e)
except_exception(ticker_symbol, f) ==
    IF f.kind = "raise"
    THEN [f EXCEPT !.kind = "return",
                   !.result = FailedResult(ticker_symbol, NoKey, f.msg)]
    ELSE f

calculate_dcf(dp, ticker_symbol, custom_params, script, tk) ==
    except_exception(ticker_symbol,
                     calculate_dcf_try(dp, ticker_symbol, custom_params, script, tk))

\* ------------------------------------------------------------------------
\* Inputs: what the market-data source returns for a symbol
\* ------------------------------------------------------------------------
Symbols == {"ASML.AS", "INGA.AS"}

Technology == Str(<<"T", "e", "c", "h", "n", "o", "l", "o", "g", "y">>)
FinancialServices == Str(<<"F", "i", "n", "a", "n", "c", "i", "a", "l", " ",
                           "S", "e", "r", "v", "i", "c", "e", "s">>)

BaseInfo ==
    [shortName |-> "Company N.V.", currentPrice |-> Num(10),
     sharesOutstanding |-> Num(10), sector |-> Technology, industry |-> MissingText,
     beta |-> Missing, totalCash |-> Missing, totalDebt |-> Missing,
     trailingEps |-> Missing, revenueGrowth |-> Missing, returnOnEquity |-> Missing,
     totalRevenue |-> Missing, freeCashflow |-> Missing, netIncomeToCommon |-> Missing]

NoStatement == [kind |-> "none", rows |-> [r \in {} |-> <<>>]]
EmptyStatement == [kind |-> "empty", rows |-> [r \in {} |-> <<>>]]
RaisingStatement == [kind |-> "raise", rows |-> [r \in {} |-> <<>>]]
Statement(row, series) == [kind |-> "df", rows |-> [r \in {row} |-> series]]

Ticker(symbol, info, cashflow, income_stmt, balance_sheet) ==
    [ticker |-> symbol, info |-> info, cashflow |-> cashflow,
     income_stmt |-> income_stmt, balance_sheet |-> balance_sheet]

AllOk == <<"ok", "ok", "ok", "ok">>

\* ------------------------------------------------------------------------
\* The environment of the next operation: the operation the caller invokes
\* with its arguments (op, sym, custom, ticker_symbols) and what the data
\* source and the file system will answer (the other fields).  The
\* environment moves inside a box of values, one field at a time.
\* ------------------------------------------------------------------------
\* a beta that gives discount rate 0.14 whatever the classification; with
\* growth -0.05 the five-year projections stay within the model checker's
\* integers
Auto == [n |-> 2, d |-> 0]

Override1(key, value) ==
    [keys |-> {key},
     vals |-> [k \in DOMAIN default_params_init |->
                  IF k = key THEN value ELSE default_params_init[k]]]

Override2(key1, value1, key2, value2) ==
    [keys |-> {key1, key2},
     vals |-> [k \in DOMAIN default_params_init |->
                  IF k = key1 THEN value1
                  ELSE IF k = key2 THEN value2 ELSE default_params_init[k]]]

PositiveFcf == Statement("Free Cash Flow", <<None, Num(30)>>)

Cashflows ==
    {NoStatement, PositiveFcf,
     Statement("Free Cash Flow", <<Num(0)>>), Statement("Free Cash Flow", <<Num(-5)>>)}
Incomes ==
    {NoStatement, Statement("Net Income", <<Num(20)>>), Statement("Net Income", <<Num(-3)>>)}
Balances ==
    {NoStatement, Statement("Stockholders Equity", <<Num(50)>>),
     Statement("Stockholders Equity", <<Num(-4)>>)}

\* forecast horizons tried through custom_params with arbitrary rates (the
\* default horizon of five years is tried with the rates of the base company)
Horizons == {0, 1, 2}

NumTerminalGrowths == {R(25, 1000), R(95, 1000), R(4, 25), R(1, 5)}

NumOverrides ==
    {Override2("growth_years", y, "default_terminal_growth", tg) :
        y \in Horizons, tg \in NumTerminalGrowths}
    \cup {Override2("growth_years", 2, "default_growth_rate", R(1, 10)),
          Override2("growth_years", 2, "default_wacc", R(3, 25))}

\* each horizon with a terminal growth below and above the discount rates
HorizonOverrides ==
    {Override2("growth_years", y, "default_terminal_growth", tg) :
        y \in Horizons, tg \in {R(25, 1000), R(1, 5)}}

\* overrides of the terminal growth alone: equal to and above the discount
\* rate 0.14 of the base company
TerminalOverrides ==
    {Override1("default_terminal_growth", R(14, 100)),
     Override1("default_terminal_growth", R(1, 5))}

FetchOutcomes == {"ok", "incomplete", "transient", "error"}
FetchScripts == [1..(default_params_init.max_retries + 1) -> FetchOutcomes]

\* batch arguments: ticker lists of at most MaxTickers symbols
MaxTickers == 2

RECURSIVE SeqsUpTo(_, _)
SeqsUpTo(S, k) ==
    IF k = 0 THEN {<<>>}
    ELSE LET shorter == SeqsUpTo(S, k - 1)
         IN  shorter \cup {Append(q, x) : q \in {r \in shorter : Len(r) = k - 1}, x \in S}

TickerLists == SeqsUpTo(Symbols, MaxTickers)

\* what the data source does for one position of a batch
BatchKinds == {"valued", "eps_only", "no_data", "no_price", "fetch_fails"}

BaseEnv ==
    [op |-> "calculate_dcf", sym |-> "ASML.AS", custom |-> NoCustom,
     ticker_symbols |-> <<>>, kinds |-> [i \in 1..MaxTickers |-> "valued"],
     excel_ok |-> TRUE, script |-> AllOk,
     sector |-> Technology, industry |-> MissingText, cf |-> PositiveFcf, inc |-> NoStatement, bs |-> NoStatement,
     eps |-> Missing, price |-> Num(10), shares |-> Num(10),
     sfcf |-> Missing, snet |-> Missing, roe |-> Missing,
     beta |-> Auto, g |-> R(-1, 2), cash |-> Missing, debt |-> Missing]

One(k) == [k2 \in DOMAIN BaseEnv |-> {BaseEnv[k2]}]

\* every combination of the inputs the selector reads, valued with the
\* process-wide defaults
SelectorBox ==
    [One("op") EXCEPT
        !.sym = Symbols, !.cf = Cashflows, !.inc = Incomes, !.bs = Balances,
        !.eps = {Missing, None, Num(5), Num(-1)},
        !.price = {Missing, Num(0), Num(10), Num(100)},
        !.shares = {Missing, Num(10)},
        !.sfcf = {Missing, Num(30)}, !.snet = {Missing, Num(20)}]

\* sector, industry and return on equity
ClassifierBox ==
    [One("op") EXCEPT
        !.op = {"calculate_dcf", "calculate_ptb_value"},
        !.sym = Symbols, !.sector = {Technology, FinancialServices, NoneText, MissingText},
        !.cf = {NoStatement, PositiveFcf}, !.inc = Incomes, !.bs = Balances,
        !.roe = {Missing, None, R(25, 100), R(20, 100), R(17, 100), R(15, 100),
                 R(12, 100), R(10, 100), R(7, 100), R(5, 100), R(3, 100)}]

\* direct calls of the classifier and of the discount-rate estimate
Unknown == Str(<<"U", "n", "k", "n", "o", "w", "n">>)
Banks == Str(<<"B", "a", "n", "k", "s">>)

\* a one-year horizon, so that calculate_dcf stays computable with any rate
ShortHorizon == Override2("growth_years", 1, "default_terminal_growth", R(25, 1000))

WaccBox ==
    [One("op") EXCEPT
        !.op = {"calculate_dcf", "is_financial_stock", "get_wacc"},
        !.custom = {ShortHorizon},
        !.sym = Symbols,
        !.sector = {Technology, FinancialServices, Unknown, NoneText, MissingText},
        !.industry = {MissingText, NoneText, Banks},
        !.beta = {Auto, Missing, None, Num(0), Num(-1), R(1, 2), Num(1), Num(2), Num(4)}]

\* statements with several periods, missing, empty or failing to load
ThreeYears(row, newest, middle, oldest) == Statement(row, <<newest, middle, oldest>>)

ExtractBox ==
    [One("op") EXCEPT
        !.op = {"calculate_dcf", "get_financial_data"},
        !.custom = {ShortHorizon},
        !.sym = Symbols,
        !.cf = {NoStatement, EmptyStatement, RaisingStatement, PositiveFcf,
                Statement("Free Cash Flow", <<Num(0)>>),
                Statement("Free Cash Flow", <<Num(-5)>>)},
        !.inc = {NoStatement, EmptyStatement, RaisingStatement,
                 Statement("Net Income", <<Num(20)>>),
                 Statement("Net Income", <<R(121, 100), None, Num(1), Num(1)>>),
                 ThreeYears("Net Income", Num(9), Num(5), Num(1)),
                 ThreeYears("Net Income Common Stockholders", Num(1), Num(5), Num(9)),
                 ThreeYears("Net Income", Num(-1), Num(5), Num(9))},
        !.bs = {NoStatement, EmptyStatement, RaisingStatement,
                Statement("Stockholders Equity", <<Num(50)>>)},
        !.g = {Missing, None, Num(0), R(1, 2), R(-1, 2), R(1, 10)}]

\* rates, prices and per-call overrides, with a short forecast horizon
NumericBox ==
    [One("op") EXCEPT
        !.custom = NumOverrides,
        !.beta = {Auto, Missing, None, Num(1), Num(4), R(1, 2), Num(-1)},
        !.g = {Missing, Num(0), R(1, 2), R(-1, 2), R(1, 10)},
        !.price = {Num(1), Num(10), Num(1000)}]

\* cash, debt, prices and share counts, with a short forecast horizon
NetCashBox ==
    [One("op") EXCEPT
        !.custom = HorizonOverrides,
        !.beta = {Auto, Num(1)},
        !.cash = {Missing, None, Num(100), Num(0)},
        !.debt = {Missing, Num(20), Num(1000)},
        !.price = {Num(1), Num(10), Num(1000)},
        !.shares = {Num(10), Num(-10)}]

\* the earnings-based and price-to-book methods under per-call overrides
EarningsBox ==
    [One("op") EXCEPT
        !.custom = HorizonOverrides, !.sym = Symbols,
        !.cf = {PositiveFcf, Statement("Free Cash Flow", <<Num(-5)>>)},
        !.inc = Incomes, !.bs = Balances, !.eps = {Missing, Num(5)},
        !.beta = {Auto, Missing, Num(1)}, !.g = {Num(0), R(-1, 2), R(1, 10)}]

OverrideBox ==
    [One("op") EXCEPT !.custom = NumOverrides \cup TerminalOverrides \cup {NoCustom}]

\* every script of max_retries + 1 attempts
FetchBox ==
    [One("op") EXCEPT !.sym = Symbols, !.script = FetchScripts,
                      !.eps = {Missing, Num(5)}]

BatchBox ==
    [One("op") EXCEPT
        !.op = {"calculate_dcf", "generate_dcf_report", "generate_fair_values_dict"},
        !.ticker_symbols = TickerLists,
        !.kinds = [1..MaxTickers -> BatchKinds],
        !.excel_ok = BOOLEAN]

Boxes ==
    {SelectorBox, ClassifierBox, WaccBox, ExtractBox, NumericBox, NetCashBox,
     EarningsBox, OverrideBox, FetchBox, BatchBox}

InBox(e, B) == \A k \in DOMAIN BaseEnv : e[k] \in B[k]

\* the ticker object the data source serves for the environment e
TickerOf(e) ==
    LET raw == Ticker(e.sym,
                   [BaseInfo EXCEPT !.sector = e.sector, !.industry = e.industry,
                                    !.trailingEps = e.eps,
                                    !.currentPrice = e.price,
                                    !.sharesOutstanding = e.shares,
                                    !.freeCashflow = e.sfcf, !.netIncomeToCommon = e.snet,
                                    !.returnOnEquity = e.roe, !.revenueGrowth = e.g,
                                    !.totalCash = e.cash, !.totalDebt = e.debt],
                   e.cf, e.inc, e.bs)
    IN  [raw EXCEPT !.info.beta =
            IF e.beta = Auto
            THEN IF is_financial_stock(raw) THEN R(7, 3) ELSE R(5, 2)
            ELSE e.beta]

\* the ticker object and the script served for a batch position
BatchTicker(sym, kind) ==
    IF kind = "valued"
    THEN TickerOf([BaseEnv EXCEPT !.sym = sym, !.eps = Num(1),
                                  !.inc = Statement("Net Income", <<Num(20)>>)])
    ELSE IF kind = "no_data"
    THEN TickerOf([BaseEnv EXCEPT !.sym = sym, !.cf = NoStatement])
    ELSE IF kind = "no_price"
    THEN TickerOf([BaseEnv EXCEPT !.sym = sym, !.price = None, !.eps = Num(2)])
    ELSE TickerOf([BaseEnv EXCEPT !.sym = sym, !.cf = NoStatement, !.eps = Num(2)])

BatchScript(kind) ==
    IF kind = "fetch_fails" THEN <<"transient", "transient", "transient", "transient">>
    ELSE AllOk

\* ------------------------------------------------------------------------
\* Batch drivers
\* ------------------------------------------------------------------------
\* the calculate_dcf call made for position i
batch_call(dp, ticker_symbols, kinds, i) ==
    calculate_dcf(dp, ticker_symbols[i], NoCustom, BatchScript(kinds[i]),
                  BatchTicker(ticker_symbols[i], kinds[i]))

\* every returned result kept
report_keeps_all(f) == f.kind = "return"

\* lines 606-609: a result is kept only when it has a fair value
report_keeps(f) == f.kind = "return" /\ f.result.fair_value # None

\* lines 602-611: the loop of generate_dcf_report from position i on
RECURSIVE report_loop(_, _, _, _, _)
report_append(results, f) ==
    IF report_keeps(f) THEN Append(results, f.result) ELSE results

report_loop(dp, ticker_symbols, kinds, i, results) ==
    IF i > Len(ticker_symbols) THEN results
    ELSE report_loop(dp, ticker_symbols, kinds, i + 1,
                     report_append(results, batch_call(dp, ticker_symbols, kinds, i)))

\* generate_dcf_report: excel_ok is whether df.to_excel succeeds; rows are
\* the rows of the saved file
\* lines 613-631, given the results the loop kept
report_save(results, excel_ok) ==
    IF results = <<>> THEN [ret |-> "None", rows |-> <<>>]
    ELSE IF excel_ok THEN [ret |-> "excel_path", rows |-> results]
    ELSE [ret |-> "None", rows |-> <<>>]

generate_dcf_report(dp, ticker_symbols, kinds, excel_ok) ==
    report_save(report_loop(dp, ticker_symbols, kinds, 1, <<>>), excel_ok)

\* every returned result stored
dict_keeps_all(f) == f.kind = "return"

\* lines 647-648: a fair value is stored only when the result has one
dict_keeps(f) == f.kind = "return" /\ f.result.fair_value # None

\* lines 643-653: the loop of generate_fair_values_dict from position i on;
\* fair_values maps a symbol to its value, Missing for a key not in the dict
RECURSIVE dict_loop(_, _, _, _, _)
dict_store(fair_values, ticker_symbol, f) ==
    IF dict_keeps(f)
    THEN [fair_values EXCEPT ![ticker_symbol] = f.result.fair_value]
    ELSE fair_values

dict_loop(dp, ticker_symbols, kinds, i, fair_values) ==
    IF i > Len(ticker_symbols) THEN fair_values
    ELSE dict_loop(dp, ticker_symbols, kinds, i + 1,
                   dict_store(fair_values, ticker_symbols[i],
                              batch_call(dp, ticker_symbols, kinds, i)))

EmptyDict == [sym \in Symbols |-> Missing]

generate_fair_values_dict(dp, ticker_symbols, kinds) ==
    dict_loop(dp, ticker_symbols, kinds, 1, EmptyDict)

\* ------------------------------------------------------------------------
\* Fair-value configuration store (src/config_manager.py).  The working
\* directory holds fair_values_config.json and the two older value files
\* dcf_fair_values.json and fair_values.json.  A mapping of symbols to values
\* is a function on Symbols with Missing for a symbol that is not a key.
\* ------------------------------------------------------------------------
\* os.path.exists(path) is False
Absent == [exists |-> FALSE]

\* the sources the module documents and set_source_priority accepts (line 205)
valid_sources == {"manual", "dcf", "analyst"}

\* lines 85, 138, 188: the priority used when the file has no 'priority' key
default_priority == <<"manual", "dcf", "analyst">>

\* load_fair_values() called without a source
NoArg == "<None>"

\* a source name that is not a key of config['sources']
NoValues == [ticker \in Symbols |-> [n |-> 3, d |-> 0]]

\* a configuration without the 'priority' key
NoPriority == <<NoKey>>

NoSources == [s \in valid_sources |-> NoValues]

\* lines 44-65: the configuration built from the older value files
initial_config(files) ==
    [priority |-> NoPriority,
     last_updated |-> NoKey,
     sources |->
        [s \in valid_sources |->
            IF s = "dcf" /\ files.dcf_json # Absent
            THEN files.dcf_json.values
            ELSE IF s = "analyst" /\ files.analyst_json # Absent
            THEN files.analyst_json
            ELSE NoValues]]

\* config.get('priority', ['manual', 'dcf', 'analyst'])
priority_of(config) ==
    IF config.priority = NoPriority THEN default_priority ELSE config.priority

\* lines 87-89: the values of one source added under the keys not yet taken
add_source(combined_values, values) ==
    [ticker \in Symbols |->
        IF combined_values[ticker] = Missing THEN values[ticker]
        ELSE combined_values[ticker]]

\* lines 85-89: the loop over the priority list
RECURSIVE combine(_, _, _)
combine(sources, priority, combined_values) ==
    IF priority = <<>> THEN combined_values
    ELSE combine(sources, Tail(priority),
                 IF Head(priority) \in DOMAIN sources /\ sources[Head(priority)] # NoValues
                 THEN add_source(combined_values, sources[Head(priority)])
                 ELSE combined_values)

\* lines 74-96: the answer read from an existing configuration
read_fair_values(config, source) ==
    IF source = "all" \/ source = NoArg
    THEN combine(config.sources, priority_of(config), EmptyDict)
    ELSE IF source \in DOMAIN config.sources /\ config.sources[source] # NoValues
    THEN config.sources[source]
    ELSE EmptyDict

\* lines 40-72, given the configuration built when the file was missing
load_created(files, config, source) ==
    [ret |-> IF config.sources = NoSources THEN EmptyDict
             ELSE read_fair_values(config, source),
     files |-> [files EXCEPT !.config = config]]

\* load_fair_values(source): what it returns and the files it leaves
load_fair_values(files, source) ==
    IF files.config = Absent
    THEN load_created(files, initial_config(files), source)
    ELSE [ret |-> read_fair_values(files.config, source), files |-> files]

\* the same update starting from an empty sources dict
updated_config_fresh(config, values, source) ==
    [priority |-> priority_of(config),
     last_updated |-> source,
     sources |-> [NoSources EXCEPT ![source] = values]]

\* lines 132-147 on the configuration loaded at lines 118-122
updated_config(config, values, source) ==
    [priority |-> priority_of(config),
     last_updated |-> source,
     sources |-> [config.sources EXCEPT ![source] = values]]

EmptyConfig == [priority |-> NoPriority, last_updated |-> NoKey, sources |-> NoSources]

\* save_fair_values(values, source); backup is whether the backups directory
\* holds a copy of the configuration
save_fair_values(files, values, source) ==
    IF files.config = Absent
    THEN [ret |-> TRUE,
          files |-> [files EXCEPT !.config = updated_config(EmptyConfig, values, source)]]
    ELSE [ret |-> TRUE,
          files |-> [files EXCEPT !.config = updated_config(files.config, values, source),
                                  !.backup = TRUE]]

\* get_source_priority()
get_source_priority(files) ==
    IF files.config # Absent THEN priority_of(files.config) ELSE default_priority

\* line 205 accepting every list
all_valid_unchecked(priority_list) == TRUE

\* line 205
all_valid(priority_list) ==
    \A i \in 1..Len(priority_list) : priority_list[i] \in valid_sources

\* set_source_priority(priority_list)
set_source_priority(files, priority_list) ==
    IF ~all_valid(priority_list) THEN [ret |-> FALSE, files |-> files]
    ELSE IF files.config # Absent
    THEN [ret |-> TRUE, files |-> [files EXCEPT !.config.priority = priority_list]]
    ELSE [ret |-> FALSE, files |-> files]

\* the mappings callers save and the older files hold
ValueDicts ==
    {EmptyDict,
     [EmptyDict EXCEPT !["ASML.AS"] = Num(700)],
     [EmptyDict EXCEPT !["ASML.AS"] = Num(650), !["INGA.AS"] = Num(19)]}

PriorityLists ==
    {<<>>, <<"dcf">>, <<"dcf", "manual">>, <<"manual", "dcf", "analyst">>,
     <<"analyst", "dcf", "manual">>, <<"manual", "custom">>}

SourceArgs == valid_sources \cup {"all", NoArg}

\* ------------------------------------------------------------------------
\* Ticker list resolution (src/aex_tickers.py).  The CSV file is absent,
\* cannot be opened, or has data rows; of a row only the yahoo_ticker cell
\* matters: a text, or NoneCell when the row is shorter than the header
\* (csv.DictReader fills the missing cell with None).  tickers.json is
\* absent, cannot be opened or parsed, has no content, or holds a dict.
\* ------------------------------------------------------------------------
NoneCell == "<None>"

Cells == {"ASML.AS", " INGA.AS ", "", "   ", NoneCell}

\* str.strip() on the cells above
strip(cell) ==
    IF cell = " INGA.AS " THEN "INGA.AS"
    ELSE IF cell = "   " THEN ""
    ELSE cell

\* lines 97-99: the loop over the rows from position i on; raised is whether
\* row['yahoo_ticker'].strip() raised AttributeError on a None cell
RECURSIVE read_rows(_, _, _, _)
read_rows(has_column, rows, i, csv_tickers) ==
    IF i > Len(rows) THEN [raised |-> FALSE, csv_tickers |-> csv_tickers]
    ELSE IF ~has_column THEN read_rows(has_column, rows, i + 1, csv_tickers)
    ELSE IF rows[i] = NoneCell THEN [raised |-> TRUE, csv_tickers |-> csv_tickers]
    ELSE IF strip(rows[i]) # ""
    THEN read_rows(has_column, rows, i + 1, Append(csv_tickers, strip(rows[i])))
    ELSE read_rows(has_column, rows, i + 1, csv_tickers)

\* lines 84-99: what reading the CSV file gives
read_csv(csv) ==
    IF csv.kind = "absent" THEN [raised |-> FALSE, csv_tickers |-> <<>>]
    ELSE IF csv.kind = "unreadable" THEN [raised |-> TRUE, csv_tickers |-> <<>>]
    ELSE read_rows(csv.has_column, csv.rows, 1, <<>>)

CsvPath == "amsterdam_aex_tickers.csv"
JsonPath == "tickers.json"

\* lines 75-80
initial_source_info ==
    [source |-> "error", reason |-> "No ticker sources available", path |-> "None",
     tickers_count |-> 0]

\* lines 103-108
csv_source_info(csv_tickers) ==
    [source |-> "csv_file", reason |-> "Successfully loaded from Amsterdam AEX CSV file",
     path |-> CsvPath, tickers_count |-> Len(csv_tickers)]

\* update_json_from_csv (lines 25-54): raised when os.makedirs of the backups
\* folder fails (line 34, outside the try blocks); a failing copy or write is
\* absorbed
update_json_from_csv(files, tickers) ==
    IF ~files.backups_dir_ok THEN [raised |-> TRUE, files |-> files]
    ELSE [raised |-> FALSE,
          files |-> [files EXCEPT
                        !.tickers_backup = @ \/ files.tickers_json.kind # "absent",
                        !.tickers_json =
                            IF files.json_writable
                            THEN [kind |-> "data", has_key |-> TRUE, AEX_TICKERS |-> tickers]
                            ELSE @]]

\* lines 124-168, given the source_info the CSV part left
load_from_json(files, source_info) ==
    LET json == files.tickers_json
    IN  IF json.kind = "data" /\ json.has_key /\ Len(json.AEX_TICKERS) > 0
        THEN [tickers |-> json.AEX_TICKERS,
              source_info |-> [source |-> "json_file",
                               reason |-> "Successfully loaded from file",
                               path |-> JsonPath,
                               tickers_count |-> Len(json.AEX_TICKERS)],
              files |-> files]
        ELSE [tickers |-> <<>>,
              source_info |->
                  [source_info EXCEPT
                      !.source = "no_tickers_found",
                      !.reason = IF json.kind = "absent" THEN "File not found"
                                 ELSE IF json.kind = "unreadable" THEN "Error loading file"
                                 ELSE IF json.kind = "empty"
                                 THEN "Invalid ticker data in file"
                                 ELSE @,
                      !.path = IF json.kind = "data" THEN @ ELSE JsonPath],
              files |-> files]

\* the CSV tickers returned although the update of tickers.json raised
after_update_json_ignoring(files, csv_tickers, updated) ==
    [tickers |-> csv_tickers, source_info |-> csv_source_info(csv_tickers),
     files |-> updated.files]

\* lines 110-122, given what update_json_from_csv did
after_update_json(files, csv_tickers, updated) ==
    IF updated.raised
    THEN load_from_json(files, csv_source_info(csv_tickers))
    ELSE [tickers |-> csv_tickers, source_info |-> csv_source_info(csv_tickers),
          files |-> updated.files]

\* lines 101-168, given what reading the CSV file gave
after_csv(files, update_json, read) ==
    IF read.raised THEN load_from_json(files, initial_source_info)
    ELSE IF Len(read.csv_tickers) > 0
    THEN IF update_json
         THEN after_update_json(files, read.csv_tickers,
                                update_json_from_csv(files, read.csv_tickers))
         ELSE [tickers |-> read.csv_tickers,
               source_info |-> csv_source_info(read.csv_tickers), files |-> files]
    ELSE load_from_json(files, initial_source_info)

\* load_tickers(return_source_info=True, update_json): the list, the
\* source_info and the files it leaves
load_tickers(files, update_json) == after_csv(files, update_json, read_csv(files.csv))

CsvFiles ==
    {[kind |-> "absent"], [kind |-> "unreadable"]}
    \cup {[kind |-> "rows", has_column |-> TRUE, rows |-> r] : r \in SeqsUpTo(Cells, MaxTickers)}
    \cup {[kind |-> "rows", has_column |-> FALSE, rows |-> <<"ASML.AS">>]}

JsonFiles ==
    {[kind |-> "absent"], [kind |-> "unreadable"], [kind |-> "empty"],
     [kind |-> "data", has_key |-> FALSE, AEX_TICKERS |-> <<>>],
     [kind |-> "data", has_key |-> TRUE, AEX_TICKERS |-> <<>>],
     [kind |-> "data", has_key |-> TRUE, AEX_TICKERS |-> <<"KPN.AS">>],
     [kind |-> "data", has_key |-> TRUE, AEX_TICKERS |-> <<"KPN.AS", "ASML.AS">>]}

\* a working directory without any of the files, where files can be written
NoFiles ==
    [config |-> Absent, backup |-> FALSE, dcf_json |-> Absent,
     analyst_json |-> Absent,
     csv |-> [kind |-> "absent"], tickers_json |-> [kind |-> "absent"],
     tickers_backup |-> FALSE, backups_dir_ok |-> TRUE, json_writable |-> TRUE,
     scanner_py |-> [kind |-> "absent", estimates |-> EmptyDict, writes |-> 0],
     scanner_backup |-> FALSE, dcf_writable |-> TRUE, scanner_writable |-> TRUE]

\* ------------------------------------------------------------------------
\* DCF integration (src/dcf_integration.py).  aex_scanner.py is absent, or a
\* text with or without the FAIR_VALUE_ESTIMATES dictionary; of the text
\* only the entries of that dictionary are kept.  dcf_writable and
\* scanner_writable tell whether the two files can be opened for writing.
\* ------------------------------------------------------------------------
\* update_scanner_file (lines 61-129): raised when os.makedirs of the
\* backups folder fails (line 76, outside the try block)
update_scanner_file(files, fair_values) ==
    IF ~files.backups_dir_ok THEN [raised |-> TRUE, ret |-> FALSE, files |-> files]
    ELSE IF files.scanner_py.kind = "absent"                   \* open raises, line 128
    THEN [raised |-> FALSE, ret |-> FALSE, files |-> files]
    ELSE IF files.scanner_py.kind = "no_marker"                \* lines 95-98
    THEN [raised |-> FALSE, ret |-> FALSE,
          files |-> [files EXCEPT !.scanner_backup = TRUE]]
    ELSE IF ~files.scanner_writable                            \* line 120 raises
    THEN [raised |-> FALSE, ret |-> FALSE,
          files |-> [files EXCEPT !.scanner_backup = TRUE]]
    ELSE [raised |-> FALSE, ret |-> TRUE,                      \* lines 112-124
          files |-> [files EXCEPT !.scanner_backup = TRUE,
                                  !.scanner_py.estimates = fair_values,
                                  !.scanner_py.writes = 1 - @]]

\* what a call did: its return value, the mapping it calculated, whether it
\* wrote dcf_fair_values.json and aex_scanner.py, and the files it leaves
Outcome(r, dcf_values, wrote_json, wrote_scanner, files) ==
    [ret |-> r, dcf_values |-> dcf_values, wrote_json |-> wrote_json,
     wrote_scanner |-> wrote_scanner, files |-> files]

\* lines 54-58, given what update_scanner_file did
after_scanner_update(dcf_values, updated) ==
    Outcome(IF updated.raised THEN FALSE ELSE updated.ret, dcf_values, TRUE,
            updated.ret, updated.files)

\* the scanner file updated although dcf_fair_values.json was not written
after_json_write_unchecked(files, dcf_values) ==
    IF ~files.dcf_writable
    THEN after_scanner_update(dcf_values, update_scanner_file(files, dcf_values))
    ELSE after_scanner_update(dcf_values,
             update_scanner_file([files EXCEPT !.dcf_json = [values |-> dcf_values]],
                                 dcf_values))

\* lines 41-55: the JSON file is written, then the scanner file is updated
after_json_write(files, dcf_values) ==
    IF ~files.dcf_writable
    THEN Outcome(FALSE, dcf_values, FALSE, FALSE, files)          \* lines 50-52
    ELSE after_scanner_update(dcf_values,
             update_scanner_file([files EXCEPT !.dcf_json = [values |-> dcf_values]],
                                 dcf_values))

\* update_fair_values_with_dcf (lines 24-59), given the mapping returned by
\* calculate_dcf_fair_values(AEX_TICKERS)
update_fair_values_with_dcf(files, dcf_values) ==
    IF dcf_values = EmptyDict                                      \* lines 37-39
    THEN Outcome(FALSE, dcf_values, FALSE, FALSE, files)
    ELSE after_json_write(files, dcf_values)

\* calculate_dcf_fair_values (src/dcf_model.py, lines 655-666): a new model
calculate_dcf_fair_values(ticker_symbols, kinds) ==
    generate_fair_values_dict(default_params_init, ticker_symbols, kinds)

\* the ticker lists the integration is run on and what the data source
\* serves for each position
IntegrationRuns ==
    {[ticker_symbols |-> <<>>, kinds |-> <<"valued", "valued">>],
     [ticker_symbols |-> <<"ASML.AS">>, kinds |-> <<"valued", "valued">>],
     [ticker_symbols |-> <<"ASML.AS">>, kinds |-> <<"no_data", "valued">>],
     [ticker_symbols |-> <<"INGA.AS">>, kinds |-> <<"eps_only", "valued">>],
     [ticker_symbols |-> <<"ASML.AS", "INGA.AS">>, kinds |-> <<"valued", "valued">>],
     [ticker_symbols |-> <<"ASML.AS", "INGA.AS">>, kinds |-> <<"eps_only", "fetch_fails">>],
     [ticker_symbols |-> <<"INGA.AS", "ASML.AS">>, kinds |-> <<"no_price", "no_data">>]}

ScannerFiles ==
    {[kind |-> "absent", estimates |-> EmptyDict, writes |-> 0],
     [kind |-> "no_marker", estimates |-> EmptyDict, writes |-> 0],
     [kind |-> "source", estimates |-> EmptyDict, writes |-> 0],
     [kind |-> "source", estimates |-> [EmptyDict EXCEPT !["ASML.AS"] = R(76884, 100)],
      writes |-> 0]}


\* ------------------------------------------------------------------------
\* The scanner's fetch (src/aex_scanner.py).  The scanner iterates over its
\* ticker list; DSM.AS stands for the listed tickers without an entry in
\* FAIR_VALUE_ESTIMATES.  A response is what the data source does for one
\* ticker: the script of its attempts and the info fields it serves.
\* ------------------------------------------------------------------------
ScannerTickers == <<"ASML.AS", "INGA.AS", "DSM.AS">>

\* FAIR_VALUE_ESTIMATES.get(ticker, None)
fair_value_estimate(ticker) ==
    IF ticker = "ASML.AS" THEN R(76884, 100)
    ELSE IF ticker = "INGA.AS" THEN R(1955, 100)
    ELSE None

\* lines 73-76: max_retries, retry_delay and required_fields
scanner_params == [max_retries |-> 3, retry_delay |-> 2]

required_fields == <<"name", "price", "shares_outstanding", "fair_value">>

Responses ==
    {[script |-> AllOk, price |-> Num(10), shares |-> Num(100)],
     [script |-> <<"transient", "incomplete", "ok", "ok">>, price |-> Num(12),
      shares |-> Num(100)],
     [script |-> AllOk, price |-> Missing, shares |-> Num(100)],
     [script |-> <<"incomplete", "incomplete", "incomplete", "incomplete">>,
      price |-> Num(10), shares |-> Num(100)],
     [script |-> <<"error", "ok", "ok", "ok">>, price |-> Num(10), shares |-> Num(100)]}

\* lines 96-101: the dict built from info
stock_data_of(ticker, response) ==
    [name |-> "Company N.V.", price |-> Get(response.price),
     shares_outstanding |-> Get(response.shares),
     fair_value |-> fair_value_estimate(ticker)]

\* AEXScanner.fetch_with_retry (lines 78-119): the loop of the valuation
\* engine's fetch with the scanner's retry settings; "raise" or the data dict
scanner_fetch_with_retry(ticker, response) ==
    fetch_loop(scanner_params, response.script, ticker, 0, <<>>)

\* line 127: the required fields that are None; every field is a key of the
\* dict and name is never None (info.get('shortName', ticker) after the
\* shortName check of line 86)
missing_fields(stock_data) ==
    SelectSeq(required_fields,
              LAMBDA field : field # "name" /\ stock_data[field] = None)

\* a ticker without an entry in self.data
NoEntry == [name |-> NoKey, price |-> None, shares_outstanding |-> None,
            fair_value |-> None]

\* lines 143-157: one pass of the loop body of fetch_stock_data
store_result(scanner, ticker, fetched, stock_data) ==
    IF fetched.kind = "raise"                               \* lines 155-157
    THEN [data |-> scanner.data,
          validation_results |->
              [scanner.validation_results EXCEPT !.failed = Append(@, ticker)]]
    ELSE IF fetched.kind = "none"                           \* lines 123-125
    THEN [data |-> scanner.data,
          validation_results |->
              [scanner.validation_results EXCEPT !.failed = Append(@, ticker)]]
    ELSE IF missing_fields(stock_data) # <<>>               \* lines 129-132
    THEN [data |-> scanner.data,
          validation_results |->
              [scanner.validation_results EXCEPT
                  !.incomplete = Append(@, <<ticker, missing_fields(stock_data)>>)]]
    ELSE [data |-> [scanner.data EXCEPT ![ticker] = stock_data],   \* 133-135, 150
          validation_results |->
              [scanner.validation_results EXCEPT !.success = Append(@, ticker)]]

\* lines 143-157: the loop over the ticker list from position i on
RECURSIVE fetch_loop_over(_, _, _)
fetch_loop_over(scanner, responses, i) ==
    IF i > Len(ScannerTickers) THEN scanner
    ELSE fetch_loop_over(
             store_result(scanner, ScannerTickers[i],
                          scanner_fetch_with_retry(ScannerTickers[i], responses[i]),
                          stock_data_of(ScannerTickers[i], responses[i])),
             responses, i + 1)

\* fetch_stock_data(): line 141 resets validation_results, self.data is kept
fetch_stock_data(scanner_data, responses) ==
    fetch_loop_over([data |-> scanner_data,
                     validation_results |->
                         [success |-> <<>>, incomplete |-> <<>>, failed |-> <<>>]],
                    responses, 1)

\* ------------------------------------------------------------------------
\* State: the model object's default_params, the environment, and for the
\* operation that ran last in this environment the locals of its
\* calculate_dcf calls and what it returned
\* ------------------------------------------------------------------------
VARIABLES default_params, env, last_op, frame, batch, ret,
          files, call, data, validation_results

vars ==
    <<default_params, env, last_op, frame, batch, ret,
      files, call, data, validation_results>>

\* the valuation engine's variables, the stored files with the last call made
\* on them, and the scanner object's attributes
dcf_vars == <<default_params, env, last_op, frame, batch, ret>>

store_vars == <<files, call>>

scanner_vars == <<data, validation_results>>

\* AEXScanner.__init__: self.data = {} and empty validation lists
EmptyData ==
    [ticker \in {ScannerTickers[i] : i \in 1..Len(ScannerTickers)} |-> NoEntry]

NoResults == [success |-> <<>>, incomplete |-> <<>>, failed |-> <<>>]

\* no helper method was called directly: nothing returned
NoRet == "<nothing>"

\* no call was made on the files yet
NoCall == [op |-> "none", args |-> <<>>, ret |-> NoRet, before |-> NoFiles]

NoFrame ==
    EarlyFrame("none", FailedResult("", NoKey, NoKey), "",
               [kind |-> "none", msg |-> "", retries |-> 0, waits |-> <<>>],
               default_params_init)

NoBatch == [frames |-> <<>>, ret |-> "None", rows |-> <<>>, fair_values |-> EmptyDict]

Init ==
    /\ default_params = default_params_init
    /\ env = BaseEnv
    /\ last_op = "none"
    /\ frame = NoFrame
    /\ batch = NoBatch
    /\ ret = NoRet
    /\ files = NoFiles
    /\ call = NoCall
    /\ data = EmptyData
    /\ validation_results = NoResults

\* the caller prepares other arguments, or the data source serves other data
ChangeEnv ==
    \E B \in Boxes :
        /\ InBox(env, B)
        /\ \E k \in DOMAIN BaseEnv :
              \E v \in B[k] :
                  /\ v # env[k]
                  /\ env' = [env EXCEPT ![k] = v]
        /\ last_op' = "none"
        /\ frame' = NoFrame
        /\ batch' = NoBatch
        /\ ret' = NoRet
        /\ UNCHANGED <<default_params, store_vars, scanner_vars>>

\* model.calculate_dcf(ticker_symbol, custom_params)
CalculateDcf ==
    /\ env.op = "calculate_dcf"
    /\ last_op' = "calculate_dcf"
    /\ frame' = calculate_dcf(default_params, env.sym, env.custom, env.script,
                              TickerOf(env))
    /\ batch' = NoBatch
    /\ ret' = NoRet
    /\ default_params' = default_params_after(default_params, env.custom)
    /\ UNCHANGED <<env, store_vars, scanner_vars>>

BatchFrames ==
    [i \in 1..Len(env.ticker_symbols) |->
        batch_call(default_params, env.ticker_symbols, env.kinds, i)]

ReportBatch(frames, r) ==
    [frames |-> frames, ret |-> r.ret, rows |-> r.rows, fair_values |-> EmptyDict]

\* model.generate_dcf_report(ticker_symbols)
GenerateDcfReport ==
    /\ env.op = "generate_dcf_report"
    /\ last_op' = "generate_dcf_report"
    /\ batch' = ReportBatch(BatchFrames,
                            generate_dcf_report(default_params, env.ticker_symbols,
                                                env.kinds, env.excel_ok))
    /\ frame' = NoFrame
    /\ ret' = NoRet
    /\ UNCHANGED <<default_params, env, store_vars, scanner_vars>>

\* model.generate_fair_values_dict(ticker_symbols)
GenerateFairValuesDict ==
    /\ env.op = "generate_fair_values_dict"
    /\ last_op' = "generate_fair_values_dict"
    /\ batch' = [frames |-> BatchFrames, ret |-> "dict", rows |-> <<>>,
                 fair_values |-> generate_fair_values_dict(default_params,
                                     env.ticker_symbols, env.kinds)]
    /\ frame' = NoFrame
    /\ ret' = NoRet
    /\ UNCHANGED <<default_params, env, store_vars, scanner_vars>>

\* model.is_financial_stock(ticker)
IsFinancialStock ==
    /\ env.op = "is_financial_stock"
    /\ last_op' = "is_financial_stock"
    /\ ret' = is_financial_stock(TickerOf(env))
    /\ frame' = NoFrame
    /\ batch' = NoBatch
    /\ UNCHANGED <<default_params, env, store_vars, scanner_vars>>

\* model.get_wacc(ticker)
GetWacc ==
    /\ env.op = "get_wacc"
    /\ last_op' = "get_wacc"
    /\ ret' = get_wacc(default_params, TickerOf(env))
    /\ frame' = NoFrame
    /\ batch' = NoBatch
    /\ UNCHANGED <<default_params, env, store_vars, scanner_vars>>

\* model.get_financial_data(ticker)
GetFinancialData ==
    /\ env.op = "get_financial_data"
    /\ last_op' = "get_financial_data"
    /\ ret' = get_financial_data(default_params, TickerOf(env))
    /\ frame' = NoFrame
    /\ batch' = NoBatch
    /\ UNCHANGED <<default_params, env, store_vars, scanner_vars>>

\* model.calculate_ptb_value(ticker, model.get_financial_data(ticker), params)
CalculatePtbValue ==
    /\ env.op = "calculate_ptb_value"
    /\ last_op' = "calculate_ptb_value"
    /\ ret' = calculate_ptb_value(TickerOf(env),
                                  get_financial_data(default_params, TickerOf(env)),
                                  default_params)
    /\ frame' = NoFrame
    /\ batch' = NoBatch
    /\ UNCHANGED <<default_params, env, store_vars, scanner_vars>>

Next ==
    \/ ChangeEnv
    \/ CalculateDcf
    \/ GenerateDcfReport
    \/ GenerateFairValuesDict
    \/ IsFinancialStock
    \/ GetWacc
    \/ GetFinancialData
    \/ CalculatePtbValue

Spec == Init /\ [][Next]_vars

\* ------------------------------------------------------------------------
\* The configuration store driven by its callers: every call of
\* load_fair_values, save_fair_values, get_source_priority and
\* set_source_priority in any order, starting in a directory without
\* fair_values_config.json where the older value files may exist
\* ------------------------------------------------------------------------
CallRecord(op, args, r) ==
    [op |-> op, args |-> args, ret |-> r.ret, before |-> files]

ConfigInit ==
    /\ default_params = default_params_init
    /\ env = BaseEnv
    /\ last_op = "none"
    /\ frame = NoFrame
    /\ batch = NoBatch
    /\ ret = NoRet
    /\ data = EmptyData
    /\ validation_results = NoResults
    /\ call = NoCall
    /\ \E d \in {Absent, [values |-> [EmptyDict EXCEPT !["INGA.AS"] = Num(21)]]} :
       \E a \in {Absent, [EmptyDict EXCEPT !["INGA.AS"] = Num(20)]} :
           files = [NoFiles EXCEPT !.dcf_json = d, !.analyst_json = a]

\* load_fair_values(source)
LoadFairValues ==
    \E source \in SourceArgs :
        /\ files' = load_fair_values(files, source).files
        /\ call' = CallRecord("load_fair_values", <<source>>, load_fair_values(files, source))
        /\ UNCHANGED <<dcf_vars, scanner_vars>>

\* save_fair_values(values, source)
SaveFairValues ==
    \E values \in ValueDicts, source \in valid_sources :
        /\ files' = save_fair_values(files, values, source).files
        /\ call' = CallRecord("save_fair_values", <<values, source>>,
                           save_fair_values(files, values, source))
        /\ UNCHANGED <<dcf_vars, scanner_vars>>

\* get_source_priority()
GetSourcePriority ==
    /\ call' = CallRecord("get_source_priority", <<>>, [ret |-> get_source_priority(files)])
    /\ UNCHANGED <<files, dcf_vars, scanner_vars>>

\* set_source_priority(priority_list)
SetSourcePriority ==
    \E priority_list \in PriorityLists :
        /\ files' = set_source_priority(files, priority_list).files
        /\ call' = CallRecord("set_source_priority", <<priority_list>>,
                           set_source_priority(files, priority_list))
        /\ UNCHANGED <<dcf_vars, scanner_vars>>

ConfigNext ==
    \/ LoadFairValues
    \/ SaveFairValues
    \/ GetSourcePriority
    \/ SetSourcePriority

ConfigSpec == ConfigInit /\ [][ConfigNext]_vars

\* ------------------------------------------------------------------------
\* The ticker list loaded from any state of the two ticker files
\* ------------------------------------------------------------------------
TickersInit ==
    /\ default_params = default_params_init
    /\ env = BaseEnv
    /\ last_op = "none"
    /\ frame = NoFrame
    /\ batch = NoBatch
    /\ ret = NoRet
    /\ data = EmptyData
    /\ validation_results = NoResults
    /\ call = NoCall
    /\ \E csv \in CsvFiles, json \in JsonFiles, dir_ok \in BOOLEAN, writable \in BOOLEAN :
           files = [NoFiles EXCEPT !.csv = csv, !.tickers_json = json,
                                   !.backups_dir_ok = dir_ok, !.json_writable = writable]

LoadedTickers(update_json, r) ==
    [op |-> "load_tickers", args |-> <<update_json>>,
     ret |-> [tickers |-> r.tickers, source_info |-> r.source_info], before |-> files]

\* load_tickers(return_source_info=True, update_json=update_json)
LoadTickers ==
    \E update_json \in BOOLEAN :
        /\ files' = load_tickers(files, update_json).files
        /\ call' = LoadedTickers(update_json, load_tickers(files, update_json))
        /\ UNCHANGED <<dcf_vars, scanner_vars>>

TickersNext == LoadTickers

TickersSpec == TickersInit /\ [][TickersNext]_vars

\* ------------------------------------------------------------------------
\* One scanner object fetching again and again while the data source
\* answers differently
\* ------------------------------------------------------------------------
ScannerInit == Init

\* scanner.fetch_stock_data()
FetchStockData ==
    \E responses \in [1..Len(ScannerTickers) -> Responses] :
        /\ data' = fetch_stock_data(data, responses).data
        /\ validation_results' = fetch_stock_data(data, responses).validation_results
        /\ call' = [op |-> "fetch_stock_data", args |-> <<>>, ret |-> NoRet,
                    before |-> NoFiles]
        /\ UNCHANGED <<dcf_vars, files>>

ScannerNext == FetchStockData

ScannerSpec == ScannerInit /\ [][ScannerNext]_vars

\* ------------------------------------------------------------------------
\* The integration run again and again over any ticker list, in a directory
\* where each of the writes may fail
\* ------------------------------------------------------------------------
IntegrationInit ==
    /\ default_params = default_params_init
    /\ env = BaseEnv
    /\ last_op = "none"
    /\ frame = NoFrame
    /\ batch = NoBatch
    /\ ret = NoRet
    /\ data = EmptyData
    /\ validation_results = NoResults
    /\ call = NoCall
    /\ \E scanner_py \in ScannerFiles, dir_ok \in BOOLEAN, dcf_ok \in BOOLEAN,
          scanner_ok \in BOOLEAN :
           files = [NoFiles EXCEPT !.scanner_py = scanner_py, !.backups_dir_ok = dir_ok,
                                   !.dcf_writable = dcf_ok,
                                   !.scanner_writable = scanner_ok]

Integrated(out) ==
    [op |-> "update_fair_values_with_dcf",
     args |-> <<>>,
     ret |-> [ret |-> out.ret, dcf_values |-> out.dcf_values,
              wrote_json |-> out.wrote_json, wrote_scanner |-> out.wrote_scanner],
     before |-> files]

\* update_fair_values_with_dcf()
UpdateFairValuesWithDcf ==
    \E run \in IntegrationRuns :
        /\ files' = update_fair_values_with_dcf(files,
                         calculate_dcf_fair_values(run.ticker_symbols, run.kinds)).files
        /\ call' = Integrated(update_fair_values_with_dcf(files,
                                  calculate_dcf_fair_values(run.ticker_symbols, run.kinds)))
        /\ UNCHANGED <<dcf_vars, scanner_vars>>

IntegrationNext == UpdateFairValuesWithDcf

IntegrationSpec == IntegrationInit /\ [][IntegrationNext]_vars

\* ------------------------------------------------------------------------
\* Properties
\* ------------------------------------------------------------------------
Valued(f) == f.result.fair_value # None

Called == last_op = "calculate_dcf"

\* the selector of the last calculate_dcf call ran
Selected == Called /\ frame.selected # "none"

\* the frames of the calculate_dcf calls of the last operation
CallFrames ==
    IF Called THEN {frame} ELSE {batch.frames[i] : i \in DOMAIN batch.frames}

KeptFrames == SelectSeq(batch.frames, Valued)

ValuedAt(sym) ==
    {i \in DOMAIN batch.frames : env.ticker_symbols[i] = sym /\ Valued(batch.frames[i])}

\* C3: the keys of the returned dict are exactly the requested symbols
\* whose valuation gave a fair value, each mapped to that fair value
C3_DictOfValuedSymbols ==
    last_op = "generate_fair_values_dict" =>
        \A sym \in Symbols :
            IF ValuedAt(sym) = {}
            THEN batch.fair_values[sym] = Missing
            ELSE LET last == CHOOSE i \in ValuedAt(sym) : \A j \in ValuedAt(sym) : j <= i
                 IN  batch.fair_values[sym] = batch.frames[last].result.fair_value

C3_Witness ==
    /\ last_op = "generate_fair_values_dict"
    /\ \E sym \in Symbols : batch.fair_values[sym] # Missing
    /\ \E i \in DOMAIN batch.frames :
          /\ ~Valued(batch.frames[i])
          /\ batch.fair_values[env.ticker_symbols[i]] = Missing

\* the discount of the method output against the current price, in percent
RawPercent == RMul(RSub(RDiv(frame.raw_fair_value, frame.result.current_price), Num(1)),
                   Num(100))

\* C4: a successful result has its discount in [-80, 300]; an output above
\* +300% becomes four times the price, one below -80% a fifth of the price,
\* and any other output is reported as it is
C4_DiscountWithinCaps ==
    (Called /\ Valued(frame)) =>
        /\ RLe(Num(-80), frame.result.discount_percent)
        /\ RLe(frame.result.discount_percent, Num(300))
        /\ RGt(RawPercent, Num(300)) =>
              /\ frame.result.fair_value = RMul(frame.result.current_price, Num(4))
              /\ frame.result.discount_percent = Num(300)
        /\ RLt(RawPercent, Num(-80)) =>
              /\ frame.result.fair_value = RMul(frame.result.current_price, R(2, 10))
              /\ frame.result.discount_percent = Num(-80)
        /\ (RLe(RawPercent, Num(300)) /\ RGe(RawPercent, Num(-80))) =>
              /\ frame.result.fair_value = frame.raw_fair_value
              /\ frame.result.discount_percent = RawPercent

C4_Witness ==
    /\ Called
    /\ Valued(frame)
    /\ frame.result.discount_percent = Num(-80)
    /\ frame.result.fair_value # frame.raw_fair_value

\* C5: without a current price or without shares outstanding the call
\* fails with "Missing price or shares outstanding data" and runs neither
\* a valuation method nor the fallback
C5_MissingPriceOrShares ==
    (Called /\ frame.fetch.kind = "stock"
            /\ (Get(env.price) = None \/ Get(env.shares) = None)) =>
        /\ frame.result.calculation_method = "failed"
        /\ frame.result.fair_value = None
        /\ frame.result.error = "Missing price or shares outstanding data"
        /\ frame.selected = "none"
        /\ ~frame.fallback_used

C5_Witness ==
    /\ Called
    /\ Get(env.price) = None
    /\ env.cf = PositiveFcf
    /\ env.eps = Num(5)
    /\ env.bs = Statement("Stockholders Equity", <<Num(50)>>)
    /\ frame.result.error = "Missing price or shares outstanding data"

\* C6: a non-financial company with positive free cash flow is sent to the
\* cash-flow method and is never valued by earnings or by book value
C6_PositiveFcfExclusive ==
    (Selected /\ ~frame.fd.is_financial
              /\ IsNum(frame.fd.free_cash_flow) /\ frame.fd.free_cash_flow.n > 0) =>
        /\ frame.selected = "FCF-Based DCF"
        /\ frame.result.calculation_method \notin {"Earnings-Based", "Price-to-Book"}

C6_Witness ==
    /\ Selected
    /\ ~frame.fd.is_financial
    /\ env.inc = Statement("Net Income", <<Num(20)>>)
    /\ env.snet = Num(20)
    /\ IsNum(frame.fd.book_value) /\ frame.fd.book_value.n > 0
    /\ frame.result.calculation_method = "FCF-Based DCF"

EarningsValid == IsNum(frame.fd.earnings) /\ frame.fd.earnings.n > 0
BookValid == IsNum(frame.fd.book_value) /\ frame.fd.book_value.n > 0

\* C7: for a financial company or one without positive free cash flow the
\* selector takes the earnings method when earnings are positive, the
\* price-to-book method exactly when they are not and book value is
\* positive, and never values by book after choosing earnings
C7_EarningsThenBook ==
    (Selected /\ (frame.fd.is_financial \/ ~IsNum(frame.fd.free_cash_flow)
                                        \/ frame.fd.free_cash_flow.n <= 0)) =>
        /\ EarningsValid => frame.selected = "Earnings-Based"
        /\ (frame.selected = "Price-to-Book") <=> (~EarningsValid /\ BookValid)
        /\ EarningsValid => frame.result.calculation_method # "Price-to-Book"

C7_Witness ==
    /\ Selected
    /\ frame.selected = "Earnings-Based"
    /\ ~IsNum(frame.primary_value)
    /\ BookValid

\* C8 as stated: whenever the fallback is applied the result's fair value
\* is 15 times the trailing EPS
C8_FallbackResultIsFifteenEps ==
    (Called /\ frame.fallback_used) =>
        /\ frame.result.calculation_method = "P/E Multiple"
        /\ frame.result.fair_value = RMul(env.eps, Num(15))

\* C8 amended: the fallback is applied exactly when the primary selection
\* gave no value and trailing EPS is positive; its output is 15 times the
\* EPS, labelled "P/E Multiple", and is the reported fair value when it
\* lies within -80% and +300% of the current price
C8_FallbackBeforeCap ==
    Selected =>
        /\ frame.fallback_used <=>
              (~IsNum(frame.primary_value) /\ IsNum(Get(env.eps)) /\ env.eps.n > 0)
        /\ frame.fallback_used =>
              /\ frame.raw_fair_value = RMul(env.eps, Num(15))
              /\ (env.eps = Num(5) => frame.raw_fair_value = Num(75))
              /\ frame.result.calculation_method = "P/E Multiple"
              /\ (RLe(RawPercent, Num(300)) /\ RGe(RawPercent, Num(-80))) =>
                    frame.result.fair_value = RMul(env.eps, Num(15))
        /\ (~frame.fallback_used /\ Valued(frame)) =>
              /\ frame.raw_fair_value = frame.primary_value
              /\ frame.result.calculation_method = frame.selected

C8_Witness ==
    /\ Selected
    /\ frame.fallback_used
    /\ frame.fd.free_cash_flow = None /\ frame.fd.earnings = None
    /\ frame.fd.book_value = None
    /\ frame.result.fair_value = Num(75)

\* the discount rate the cash-flow method uses in the last call
UsedWacc == get_wacc(default_params, TickerOf(env))

\* C9: when the discount rate is not above the terminal growth rate the
\* cash-flow method returns None
C9_DegenerateGuard ==
    (Called /\ frame.selected = "FCF-Based DCF"
            /\ RLe(UsedWacc, frame.params.default_terminal_growth)) =>
        frame.primary_value = None

\* C10 as stated: with FCF > 0, shares > 0 and discount rate above terminal
\* growth the cash-flow method returns a positive fair value
C10_PositiveFairValue ==
    (Called /\ frame.selected = "FCF-Based DCF"
            /\ frame.fd.free_cash_flow.n > 0 /\ env.shares.n > 0
            /\ RGt(UsedWacc, frame.params.default_terminal_growth)) =>
        IsNum(frame.primary_value) /\ frame.primary_value.n > 0

NetCash == net_cash_of(TickerOf(env).info)

\* C10 amended: as stated, for a forecast horizon of at least one year and
\* a net cash position that is computable and not negative
C10_PositiveWithoutNetDebt ==
    (Called /\ frame.selected = "FCF-Based DCF"
            /\ frame.fd.free_cash_flow.n > 0 /\ env.shares.n > 0
            /\ RGt(UsedWacc, frame.params.default_terminal_growth)
            /\ frame.params.growth_years >= 1
            /\ NetCash.ok /\ NetCash.v.n >= 0) =>
        IsNum(frame.primary_value) /\ frame.primary_value.n > 0

C10_Witness ==
    /\ Called
    /\ frame.selected = "FCF-Based DCF"
    /\ env.shares.n > 0
    /\ RGt(UsedWacc, frame.params.default_terminal_growth)
    /\ frame.params.growth_years >= 1
    /\ env.cash = Num(100) /\ env.debt = Num(20)
    /\ IsNum(frame.primary_value) /\ frame.primary_value.n > 0

\* a text that is available and whose lower-cased form holds a keyword; an
\* unavailable text counts as empty
HasKeyword(t) ==
    t.k = "str" /\ \E kw \in financial_keywords : Contains(kw, ToLower(t.s))

\* C11: is_financial_stock returns true exactly when the sector or the
\* industry holds a keyword or the symbol is on the allow-list, whatever
\* the sector and industry values are, unavailable ones included
C11_KeywordOrAllowList ==
    last_op = "is_financial_stock" =>
        (ret <=> (\/ HasKeyword(env.sector)
                  \/ HasKeyword(env.industry)
                  \/ env.sym \in known_financials))

\* C12: get_financial_data returns a bundle whose growth_rate is a number,
\* whatever statements are missing, empty or failing to load
C12_GrowthRateAlwaysNumber ==
    last_op = "get_financial_data" =>
        /\ DOMAIN ret = DOMAIN NoData
        /\ IsNum(ret.growth_rate)

\* the non-null values of the net income line of the served income
\* statement, most recent first
IncomeSeries ==
    IF env.inc.kind = "df"
    THEN DropNa(env.inc.rows[CHOOSE r \in DOMAIN env.inc.rows : TRUE])
    ELSE <<>>

\* C13: a growth_rate derived from the revenue growth of the summary, from
\* the earnings CAGR or from both lies in [-0.05, 0.20]
C13_GrowthRateClamped ==
    (last_op = "get_financial_data" /\ IsNum(ret.growth_rate)
        /\ (IsNum(Get(env.g)) \/ Len(IncomeSeries) >= 3)) =>
        /\ RLe(R(-5, 100), ret.growth_rate)
        /\ RLe(ret.growth_rate, R(20, 100))

C13_Witness ==
    /\ last_op = "get_financial_data"
    /\ env.g = R(1, 2)
    /\ env.inc = NoStatement
    /\ ret.growth_rate = R(20, 100)

\* the clamped revenue-growth estimate of the summary, None without one
RevenueEstimate ==
    IF IsNum(Get(env.g)) THEN RMin(RMax(env.g, R(-5, 100)), R(20, 100)) ELSE None

\* an earnings CAGR exists: at least three periods, oldest and newest
\* both positive
CagrExists ==
    /\ Len(IncomeSeries) >= 3
    /\ IncomeSeries[1].n > 0
    /\ IncomeSeries[Len(IncomeSeries)].n > 0

CagrEstimate ==
    cagr_clamped(IncomeSeries[1], IncomeSeries[Len(IncomeSeries)], Len(IncomeSeries) - 1)

\* C14: the growth_rate of the bundle is the average of the revenue
\* estimate and the earnings CAGR when both exist, the one that exists
\* when only one does, and default_growth_rate when neither does, whatever
\* the cash-flow statement is
C14_GrowthCombination ==
    (last_op = "get_financial_data" /\ env.bs.kind # "raise"
                                    /\ env.inc.kind # "raise") =>
        ret.growth_rate =
            IF IsNum(RevenueEstimate) /\ CagrExists
            THEN RDiv(RAdd(RevenueEstimate, CagrEstimate), Num(2))
            ELSE IF IsNum(RevenueEstimate) THEN RevenueEstimate
            ELSE IF CagrExists THEN CagrEstimate
            ELSE default_params.default_growth_rate

\* C15: for a financial company, or free cash flow that is null or <= 0
\* (a missing or empty cash-flow statement included), a net income line
\* of the income statement gives the earnings of the bundle: its most
\* recent non-null value
C15_EarningsReadWithoutPositiveFcf ==
    (last_op = "get_financial_data" /\ IncomeSeries # <<>>
        /\ (ret.is_financial \/ ~IsNum(ret.free_cash_flow)
                              \/ ret.free_cash_flow.n <= 0)) =>
        ret.earnings = IncomeSeries[1]

\* the beta the data source serves
ServedBeta == TickerOf(env).info.beta

\* C16: the discount rate is 0.08 + (beta - 1) * premium clamped to
\* [0.07, 0.16] for a beta that is present and positive (premium 0.045
\* for a financial company, 0.04 otherwise), and default_wacc (+ 0.01 for
\* a financial company) otherwise; with the default parameters it is
\* within [0.07, 0.16]
C16_DiscountRate ==
    last_op = "get_wacc" =>
        LET financial == HasKeyword(env.sector) \/ HasKeyword(env.industry)
                            \/ env.sym \in known_financials
            classified == financial /\ env.sector.k # "none" /\ env.industry.k # "none"
            premium == IF classified THEN R(45, 1000) ELSE R(4, 100)
            raw == RAdd(R(8, 100), RMul(RSub(ServedBeta, Num(1)), premium))
        IN  /\ (IsNum(Get(ServedBeta)) /\ ServedBeta.n > 0) =>
                   ret = (IF RLt(raw, R(7, 100)) THEN R(7, 100)
                          ELSE IF RGt(raw, R(16, 100)) THEN R(16, 100) ELSE raw)
            /\ ~(IsNum(Get(ServedBeta)) /\ ServedBeta.n > 0) =>
                   ret = (IF classified
                          THEN RAdd(default_params.default_wacc, R(1, 100))
                          ELSE default_params.default_wacc)
            /\ RLe(R(7, 100), ret) /\ RLe(ret, R(16, 100))

C16_Witness ==
    /\ last_op = "get_wacc"
    /\ env.beta = Num(4)
    /\ ret = R(16, 100)

\* the book value of the served balance sheet, None without one
ServedBook ==
    IF env.bs.kind = "df"
    THEN env.bs.rows[CHOOSE r \in DOMAIN env.bs.rows : TRUE][1]
    ELSE None

\* C17: price-to-book gives (book value / shares) times 2.0 for ROE >
\* 0.20, 1.7 for ROE > 0.15, 1.4 for ROE > 0.10, 1.0 for ROE > 0.05, 0.8
\* for a lower ROE and 1.0 without ROE; None for a book value that is
\* missing or <= 0
C17_PriceToBookTiers ==
    last_op = "calculate_ptb_value" =>
        LET roe == Get(env.roe)
            multiple ==
                IF ~IsNum(roe) THEN Num(1)
                ELSE IF RLt(R(20, 100), roe) THEN Num(2)
                ELSE IF RLt(R(15, 100), roe) THEN R(17, 10)
                ELSE IF RLt(R(10, 100), roe) THEN R(14, 10)
                ELSE IF RLt(R(5, 100), roe) THEN Num(1)
                ELSE R(8, 10)
        IN  IF ~IsNum(ServedBook) \/ ServedBook.n <= 0
            THEN ret = None
            ELSE /\ ret = RMul(RDiv(ServedBook, env.shares), multiple)
                 /\ (ServedBook = Num(50) /\ env.roe = R(25, 100)) => ret = Num(10)
                 /\ (ServedBook = Num(50) /\ env.roe = R(3, 100)) => ret = Num(4)
                 /\ (ServedBook = Num(50) /\ env.roe = Missing) => ret = Num(5)

C17_Witness ==
    /\ last_op = "calculate_ptb_value"
    /\ env.roe = R(20, 100)
    /\ ret = R(17, 2)

\* the value of the cash-flow method of the last call for a given growth
\* rate, discount rate and net cash
FcfValueWith(growth_rate, wacc, net_cash) ==
    fcf_value(frame.fd.free_cash_flow, growth_rate, Get(env.shares), wacc,
              frame.params.default_terminal_growth, frame.params.growth_years,
              [ok |-> TRUE, v |-> net_cash])

\* C18: the cash-flow method adds total_cash - total_debt when both are
\* available and 0 when either is absent or carries no value; an
\* unavailable figure never makes the method fail
C18_UnavailableNetCashIsZero ==
    (Called /\ frame.selected = "FCF-Based DCF") =>
        frame.primary_value =
            FcfValueWith(growth_or_default(frame.fd, frame.params), UsedWacc,
                         IF IsNum(Get(env.cash)) /\ IsNum(Get(env.debt))
                         THEN RSub(env.cash, env.debt) ELSE Num(0))

\* the rates of the last call when every stage reads the per-call
\* parameters
GrowthFromParams ==
    IF IsNum(Get(env.g)) /\ IsNum(frame.fd.growth_rate)
    THEN frame.fd.growth_rate
    ELSE frame.params.default_growth_rate

WaccFromParams ==
    IF IsNum(Get(ServedBeta)) /\ ServedBeta.n > 0 THEN UsedWacc
    ELSE IF frame.fd.is_financial THEN RAdd(frame.params.default_wacc, R(1, 100))
    ELSE frame.params.default_wacc

\* C19: a growth_years, default_growth_rate, default_terminal_growth or
\* default_wacc passed in custom_params is the value every stage of the
\* valuation uses: the cash-flow method projects the per-call number of
\* years with the per-call terminal growth, takes the per-call default
\* growth when no growth was derived and the per-call default discount
\* rate when beta is absent
C19_OverridesUsedByEveryStage ==
    (Called /\ frame.selected = "FCF-Based DCF" /\ env.inc = NoStatement
            /\ Get(env.g) # Num(0) /\ NetCash.ok) =>
        frame.primary_value = FcfValueWith(GrowthFromParams, WaccFromParams, NetCash.v)

\* C20: the wait before the k-th retry of fetch_with_retry is at least
\* retry_delay * 2^k, whichever failure caused the retry
C20_ExponentialBackoff ==
    \A f \in CallFrames :
        \A k \in 1..Len(f.fetch.waits) :
            f.fetch.waits[k] >= default_params.retry_delay * Pow2(k)

\* ------------------------------------------------------------------------
\* Properties of the valuation engine, continued (Spec)
\* ------------------------------------------------------------------------
\* the base the selected method of the last call projects, and the flows it
\* projects (projected_cash_flows, line 443; projected_earnings, line 509)
MethodBase ==
    IF frame.selected = "FCF-Based DCF" THEN frame.fd.free_cash_flow
    ELSE frame.fd.earnings

ProjectedByMethod ==
    project(MethodBase, growth_or_default(frame.fd, frame.params),
            frame.params.growth_years)

Projects ==
    /\ Called
    /\ frame.selected \in {"FCF-Based DCF", "Earnings-Based"}
    /\ IsNum(MethodBase)
    /\ MethodBase.n > 0
    /\ frame.params.growth_years >= 1

\* C23: the cash-flow and the earnings method project period t as
\* base * (1 + g)^t for t = 1..growth_years with g the growth_rate of the
\* bundle, for every growth_rate in [-0.05, 0.20] the extractor produces
C23_ProjectsBundleGrowth ==
    (/\ Projects
     /\ IsNum(frame.fd.growth_rate)
     /\ RLe(R(-5, 100), frame.fd.growth_rate)
     /\ RLe(frame.fd.growth_rate, R(20, 100))) =>
        ProjectedByMethod =
            [t \in 1..frame.params.growth_years |->
                RMul(MethodBase, RPow(RAdd(Num(1), frame.fd.growth_rate), t))]


\* C24: any sequence of calculate_dcf calls, with or without custom_params,
\* leaves default_params as constructed, and the outcome of a call is the
\* outcome of the same call on a fresh model: it does not depend on the
\* symbols valued or the custom_params passed before
C24_NoSharedState ==
    /\ default_params = default_params_init
    /\ Called =>
          frame = calculate_dcf(default_params_init, env.sym, env.custom, env.script,
                                TickerOf(env))

\* a call whose custom_params changed the horizon it valued with
C24_Witness ==
    /\ Called
    /\ "growth_years" \in env.custom.keys
    /\ frame.params.growth_years # default_params.growth_years
    /\ Valued(frame)

\* C25: whatever the attempts do, fetch_with_retry makes at most
\* max_retries + 1 of them and either returns the ticker object of an attempt
\* whose info has shortName or raises; it never returns None, so no result
\* carries 'Failed to fetch stock data'; an exception that is not a
\* connection, timeout or HTTP error is raised by the first attempt without a
\* retry or a wait
C25_FetchReturnsOrRaises ==
    /\ \A f \in CallFrames :
          /\ f.fetch.kind \in {"stock", "raise"}
          /\ f.fetch.retries + 1 <= default_params.max_retries + 1
          /\ f.result.error # "Failed to fetch stock data"
    /\ Called =>
          /\ frame.fetch.kind = "stock" => env.script[frame.fetch.retries + 1] = "ok"
          /\ env.script[1] = "error" =>
                /\ frame.fetch.kind = "raise"
                /\ frame.fetch.retries = 0
                /\ frame.fetch.waits = <<>>
                /\ frame.result.error = UnexpectedMsg

\* every attempt returned incomplete data: the last one raised, and the
\* call returned a failed record carrying the message
C25_Witness ==
    /\ Called
    /\ env.script = <<"incomplete", "incomplete", "incomplete", "incomplete">>
    /\ frame.fetch.kind = "raise"
    /\ frame.fetch.retries = default_params.max_retries
    /\ frame.result.error = IncompleteMsg

MethodLabels == {"FCF-Based DCF", "Earnings-Based", "Price-to-Book", "P/E Multiple"}

\* C26: in every result of calculate_dcf, calculation_method is "failed"
\* exactly when fair_value is None; a result with a fair value carries one of
\* the four method labels, and the label is the one of the method whose
\* output became the fair value: the selected method when it returned a
\* value, "P/E Multiple" when the selected method returned none and the
\* fallback produced the value
C26_MethodNamesUsedOutput ==
    \A f \in CallFrames :
        /\ f.result.calculation_method = "failed" <=> f.result.fair_value = None
        /\ Valued(f) =>
              /\ f.result.calculation_method \in MethodLabels
              /\ IF IsNum(f.primary_value)
                 THEN /\ f.result.calculation_method = f.selected
                      /\ f.raw_fair_value = f.primary_value
                 ELSE /\ f.result.calculation_method = "P/E Multiple"
                      /\ f.fallback_used

\* a method was selected and returned no value, and the fallback
\* valued the company
C26_Witness ==
    /\ Called
    /\ frame.selected \in {"FCF-Based DCF", "Earnings-Based", "Price-to-Book"}
    /\ frame.primary_value = None
    /\ frame.result.calculation_method = "P/E Multiple"
    /\ Valued(frame)

\* ------------------------------------------------------------------------
\* Properties of the configuration store (ConfigSpec)
\* ------------------------------------------------------------------------
\* source s of the configuration has a value for ticker
HoldsTicker(config, s, ticker) ==
    config.sources[s] # NoValues /\ config.sources[s][ticker] # Missing

\* the mapping stored for source s ({} when the file or the key is absent)
StoredValues(f, s) ==
    IF f.config = Absent THEN NoValues ELSE f.config.sources[s]

\* C21: load_fair_values() without a source (or with 'all') returns, for every
\* ticker that at least one stored source holds, the value of the first source
\* of the configured priority list that holds it, and load_fair_values(s)
\* returns exactly the mapping stored for s.
C21_PriorityMerge ==
    (call.op = "load_fair_values" /\ files.config # Absent) =>
        IF call.args[1] \in {"all", NoArg}
        THEN \A ticker \in Symbols :
                (\E s \in valid_sources : HoldsTicker(files.config, s, ticker)) =>
                    \E i \in 1..Len(priority_of(files.config)) :
                        /\ HoldsTicker(files.config, priority_of(files.config)[i], ticker)
                        /\ \A j \in 1..(i - 1) :
                              ~HoldsTicker(files.config, priority_of(files.config)[j], ticker)
                        /\ call.ret[ticker] =
                              files.config.sources[priority_of(files.config)[i]][ticker]
        ELSE call.ret = IF StoredValues(files, call.args[1]) = NoValues THEN EmptyDict
                        ELSE StoredValues(files, call.args[1])

\* C27: after save_fair_values(values, source) returned True,
\* load_fair_values(source) returns exactly values, the mapping stored for
\* every other source is what it was before the call, and so is the priority
\* list that get_source_priority reports.
C27_SaveReplacesOneSource ==
    (call.op = "save_fair_values" /\ call.ret = TRUE) =>
        /\ load_fair_values(files, call.args[2]).ret = call.args[1]
        /\ \A s \in valid_sources \ {call.args[2]} :
              StoredValues(files, s) = StoredValues(call.before, s)
        /\ get_source_priority(files) = get_source_priority(call.before)

\* a save that replaced a different mapping while another source held values
\* and a priority list other than the default was configured
C27_Witness ==
    /\ call.op = "save_fair_values"
    /\ call.ret = TRUE
    /\ call.before.config # Absent
    /\ StoredValues(call.before, call.args[2]) \notin {NoValues, call.args[1]}
    /\ \E s \in valid_sources \ {call.args[2]} :
          StoredValues(call.before, s) \notin {NoValues, EmptyDict}
    /\ get_source_priority(call.before) = <<"dcf", "manual">>

\* C28: set_source_priority returns False and leaves the configuration file
\* as it was whenever the list holds a name outside {manual, dcf, analyst} or
\* the file does not exist; when it returns True, get_source_priority returns
\* exactly the list that was set and every stored source mapping is unchanged.
C28_SetPriorityChecked ==
    call.op = "set_source_priority" =>
        /\ ((\E i \in 1..Len(call.args[1]) :
                call.args[1][i] \notin {"manual", "dcf", "analyst"})
            \/ call.before.config = Absent)
           => (call.ret = FALSE /\ files = call.before)
        /\ call.ret = TRUE =>
              /\ get_source_priority(files) = call.args[1]
              /\ \A s \in valid_sources :
                    StoredValues(files, s) = StoredValues(call.before, s)

\* a list was set that differs from the one configured before, with values
\* stored
C28_Witness ==
    /\ call.op = "set_source_priority"
    /\ call.ret = TRUE
    /\ get_source_priority(call.before) # call.args[1]
    /\ \E s \in valid_sources : StoredValues(files, s) \notin {NoValues, EmptyDict}

\* ------------------------------------------------------------------------
\* Properties of the ticker list resolution (TickersSpec)
\* ------------------------------------------------------------------------
\* the cell holds a ticker
IsTickerCell(cell) == cell # NoneCell /\ strip(cell) # ""

\* the yahoo_ticker values the CSV file holds, in row order
CsvTickers(csv) ==
    IF csv.kind = "rows" /\ csv.has_column
    THEN [i \in 1..Len(SelectSeq(csv.rows, IsTickerCell)) |->
             strip(SelectSeq(csv.rows, IsTickerCell)[i])]
    ELSE <<>>

\* C22: load_tickers returns the CSV tickers with source 'csv_file' whenever
\* the CSV file yields at least one yahoo_ticker; it returns the AEX_TICKERS
\* of tickers.json with source 'json_file' only when the CSV file is
\* missing, unreadable or yields no ticker; otherwise it returns the empty
\* list with source 'no_tickers_found'; with source csv_file or json_file,
\* tickers_count is the length of the returned list
C22_TickerSourcePriority ==
    call.op = "load_tickers" =>
        /\ CsvTickers(call.before.csv) # <<>> =>
              /\ call.ret.source_info.source = "csv_file"
              /\ call.ret.tickers = CsvTickers(call.before.csv)
        /\ call.ret.source_info.source = "json_file" =>
              /\ CsvTickers(call.before.csv) = <<>>
              /\ call.ret.tickers = call.before.tickers_json.AEX_TICKERS
        /\ call.ret.source_info.source \notin {"csv_file", "json_file"} =>
              /\ call.ret.source_info.source = "no_tickers_found"
              /\ call.ret.tickers = <<>>
        /\ call.ret.source_info.source \in {"csv_file", "json_file"} =>
              call.ret.source_info.tickers_count = Len(call.ret.tickers)

\* ------------------------------------------------------------------------
\* Properties of the scanner's fetch (ScannerSpec)
\* ------------------------------------------------------------------------
\* how often ticker is listed in a sequence; an incomplete entry is the
\* pair (ticker, missing_fields)
Listed(ticker, list) == Len(SelectSeq(list, LAMBDA x : x = ticker))

ListedIncomplete(ticker, list) == Len(SelectSeq(list, LAMBDA x : x[1] = ticker))

SuccessTickers ==
    {validation_results.success[i] : i \in 1..Len(validation_results.success)}

\* C29: after any number of fetch_stock_data calls every ticker of the list
\* is in exactly one of validation_results success, incomplete and failed,
\* and the keys of self.data are exactly the tickers in success
C29_DataMatchesSuccess ==
    call.op = "fetch_stock_data" =>
        /\ \A i \in 1..Len(ScannerTickers) :
              Listed(ScannerTickers[i], validation_results.success)
              + ListedIncomplete(ScannerTickers[i], validation_results.incomplete)
              + Listed(ScannerTickers[i], validation_results.failed) = 1
        /\ {ticker \in DOMAIN data : data[ticker] # NoEntry} = SuccessTickers

\* ------------------------------------------------------------------------
\* Properties of the DCF integration (IntegrationSpec)
\* ------------------------------------------------------------------------
Integrating == call.op = "update_fair_values_with_dcf"

\* C30: update_fair_values_with_dcf rewrites the scanner file only after
\* dcf_fair_values.json was written with a mapping that is not empty; when no
\* value was calculated or the JSON file cannot be written it returns False
\* and the scanner file is as before; it returns True only when the scanner
\* file was rewritten with the calculated values
C30_ScannerAfterJson ==
    Integrating =>
        /\ call.ret.wrote_scanner =>
              /\ call.ret.wrote_json
              /\ call.ret.dcf_values # EmptyDict
              /\ files.dcf_json = [values |-> call.ret.dcf_values]
        /\ (call.ret.dcf_values = EmptyDict \/ ~call.before.dcf_writable) =>
              /\ call.ret.ret = FALSE
              /\ files.scanner_py = call.before.scanner_py
        /\ call.ret.ret = TRUE =>
              /\ call.ret.wrote_scanner
              /\ files.scanner_py.kind = "source"
              /\ files.scanner_py.estimates = call.ret.dcf_values
              /\ files.scanner_py.writes # call.before.scanner_py.writes

\* a run that replaced other estimates in the scanner file
C30_Witness ==
    /\ Integrating
    /\ call.ret.ret = TRUE
    /\ call.before.scanner_py.estimates \notin {EmptyDict, call.ret.dcf_values}
    /\ files.scanner_py.estimates = call.ret.dcf_values
====
